---- MODULE Spec2Model ----
(***************************************************************************)
(* Verification model of the ATOL geodetic / runway-procedure engine.     *)
(*                                                                         *)
(* Numbers.  The program computes in IEEE doubles; the model computes in   *)
(* fixed point:                                                            *)
(*   angles in radians, sines, cosines, ratios ... 1e-6        ("micro")   *)
(*   latitudes, longitudes, azimuths in degrees .. 1e-6 degree             *)
(*   distances in metres ......................... 0.01 m                  *)
(*   distances and elevations of a profile row ... 1e-5 m  (round(x, 5))   *)
(*   feet and nautical miles ..................... 0.01 ft, 0.01 nm        *)
(* A tolerance of the code that lies below this resolution (1e-10 degree,  *)
(* 1e-12 radian) is the resolution itself: "differs by less than the       *)
(* tolerance" is "does not differ".  The IEEE values inf and nan, which the*)
(* rhumb-line code produces at the poles, are the sentinels PosInf, NegInf *)
(* and NaN with the IEEE rules spelled out where the code meets them.      *)
(*                                                                         *)
(* Locals.  A function of the program whose statements build on each       *)
(* other is a chain of operators, one per group of statements, each        *)
(* taking the locals computed so far as parameters.                        *)
(***************************************************************************)
EXTENDS Integers, Sequences, FiniteSets, TLC, Bags

\* ------------------------------------------------------------------------
\* Fixed-point arithmetic
\* ------------------------------------------------------------------------
Abs(x) == IF x < 0 THEN -x ELSE x
Sgn(x) == IF x < 0 THEN -1 ELSE IF x > 0 THEN 1 ELSE 0
Max2(x, y) == IF x >= y THEN x ELSE y
Min2(x, y) == IF x <= y THEN x ELSE y
Micro == 1000 * 1000

\* r * b = q * c + m with 0 <= m < c, without forming r * b (r < c): b is
\* taken digit by digit, in the largest base that keeps base * c in range
RECURSIVE QuoRemBy(_, _, _, _)
QuoRemStep(h, t, c, base) == <<base * h[1] + t \div c, t % c>>
QuoRemBy(r, b, c, base) ==
  IF b = 0 THEN <<0, 0>>
  ELSE CHOOSE q \in
         { QuoRemStep(h, base * h[2] + (b % base) * r, c, base) :
             h \in { QuoRemBy(r, b \div base, c, base) } } : TRUE
\* the same for a large c < 2^30: b is split in halves, b = bh * 2^k + bl,
\* and r * b = (r * bh) * 2^k + r * bl
Fits(x, y) == x = 0 \/ y <= 2147483647 \div x
Pow2(k) ==
  CASE k = 1 -> 2 [] k = 2 -> 4 [] k = 4 -> 16 [] k = 8 -> 256
    [] OTHER -> 65536
HalfBits(b) ==
  IF b >= 65536 THEN 16 ELSE IF b >= 256 THEN 8 ELSE IF b >= 16 THEN 4
  ELSE IF b >= 4 THEN 2 ELSE 1
RECURSIVE QuoRemShift(_, _, _)
ShiftJoin(h, g, k) == <<h[1] * Pow2(k) + g[1], g[2]>>
QuoRemShift(r, k, c) ==
  IF Fits(Pow2(k), r) THEN <<(Pow2(k) * r) \div c, (Pow2(k) * r) % c>>
  ELSE CHOOSE q \in
         { ShiftJoin(h, QuoRemShift(h[2], k \div 2, c), k \div 2) :
             h \in { QuoRemShift(r, k \div 2, c) } } : TRUE
RECURSIVE QuoRemSplit(_, _, _)
SplitJoin(x1, x2, x3, k, c) ==
  <<x1[1] * Pow2(k) + x2[1] + x3[1] + (x2[2] + x3[2]) \div c,
    (x2[2] + x3[2]) % c>>
QuoRemSplit(r, b, c) ==
  IF Fits(b, r) THEN <<(b * r) \div c, (b * r) % c>>
  ELSE CHOOSE q \in
         { SplitJoin(x1, QuoRemShift(x1[2], HalfBits(b), c), x3,
                     HalfBits(b), c) :
             x1 \in { QuoRemSplit(r, b \div Pow2(HalfBits(b)), c) },
             x3 \in { QuoRemSplit(r, b % Pow2(HalfBits(b)), c) } } : TRUE
QuoRem(r, b, c) ==
  IF c <= Micro THEN QuoRemBy(r, b, c, 1024)
  ELSE IF c <= 16 * Micro THEN QuoRemBy(r, b, c, 64)
  ELSE IF c <= 33 * Micro THEN QuoRemBy(r, b, c, 32)
  ELSE QuoRemSplit(r, b, c)

\* round(a * b / c), half away from zero, for c > 0
MulDivRound(hi, h, c) == hi + h[1] + (IF 2 * h[2] >= c THEN 1 ELSE 0)
MulDivAbs(a, b, c) == MulDivRound((a \div c) * b, QuoRem(a % c, b, c), c)
MulDiv(a, b, c) == Sgn(a) * Sgn(b) * MulDivAbs(Abs(a), Abs(b), c)

\* product and quotient of two micro values
MulAbs(a, b) ==
  LET ah == a \div 1000
      al == a % 1000
      bh == b \div 1000
      bl == b % 1000
  IN  ah * bh + (ah * bl + al * bh + (al * bl) \div 1000 + 500) \div 1000
Mul(a, b) == Sgn(a) * Sgn(b) * MulAbs(Abs(a), Abs(b))
Div(a, b) == Sgn(b) * MulDiv(a, Micro, Abs(b))

\* math.sqrt, by Newton's iteration from above
RECURSIVE SqrtIter(_, _, _)
SqrtNext(x, y, y2, k) == IF y2 = y THEN y ELSE SqrtIter(x, y2, k - 1)
SqrtIter(x, y, k) ==
  IF k = 0 THEN y ELSE SqrtNext(x, y, (y + Div(x, y)) \div 2, k)
SqrtFloor(r, x) ==
  IF Mul(r, r) > x /\ Mul(r - 1, r - 1) >= x THEN r - 1 ELSE r
\* a power of two not below the root
SqrtAbove(x) ==
  IF x <= 1 THEN 1000 ELSE IF x <= 16 THEN 4000
  ELSE IF x <= 256 THEN 16000 ELSE IF x <= 4096 THEN 64000
  ELSE IF x <= 65536 THEN 256000 ELSE IF x <= 1048576 THEN 1024000
  ELSE IF x <= 16777216 THEN 4096000
  ELSE IF x <= 268435456 THEN 16384000 ELSE 65536000
Sqrt(x) ==
  IF x <= 0 THEN 0 ELSE SqrtFloor(SqrtIter(x, SqrtAbove(x), 40), x)

\* sqrt(x^2 + y^2) as max * sqrt(1 + (min/max)^2): the squares of small
\* micro values would vanish in fixed point, as they do not in a double
HypotScaled(hi, r) == Mul(hi, Sqrt(Micro + Mul(r, r)))
Hypot(x, y) ==
  IF x = 0 /\ y = 0 THEN 0
  ELSE HypotScaled(Max2(Abs(x), Abs(y)),
                   Div(Min2(Abs(x), Abs(y)), Max2(Abs(x), Abs(y))))

\* math.pi as the program holds it: the double nearest pi lies below pi, so
\* sin(math.pi) > 0; Pi is pi truncated, with the same effect
Pi == 3141592
HalfPi == 1570796
\* pi and pi/2 in units of 1e-7, for the argument reduction of Sin and Cos
PiTenth == 31415927
HalfPiTenth == 15707963
TwoPiTenth == 62831853

\* term - term y^2/((k+1)(k+2)) + ...: the series of sin from term = y,
\* k = 1, and of cos from term = 1, k = 0
RECURSIVE TaylorSum(_, _, _)
TaylorSum(term, y2, k) ==
  IF term = 0 THEN 0
  ELSE term + TaylorSum(-MulDiv(term, y2, (k + 1) * (k + 2) * Micro),
                        y2, k + 2)
\* sin (sine = TRUE) or cos of an angle t of the first quadrant, in 1e-7:
\* by the series of the angle up to pi/4, of its complement above
TrigK(y, sine) ==
  TaylorSum(IF sine THEN y ELSE Micro, Mul(y, y), IF sine THEN 1 ELSE 0)
TrigQ(t, sine) ==
  IF 2 * t <= HalfPiTenth THEN TrigK((t + 5) \div 10, sine)
  ELSE TrigK((HalfPiTenth - t + 5) \div 10, ~sine)
\* the angle r of [0, 2 pi), in 1e-7, folded into the first quadrant
FoldQ(r) ==
  IF r <= HalfPiTenth THEN r
  ELSE IF r <= PiTenth THEN PiTenth - r
  ELSE IF r <= PiTenth + HalfPiTenth THEN r - PiTenth
  ELSE TwoPiTenth - r
\* math.sin, math.cos
SinOf(r) == (IF r <= PiTenth THEN 1 ELSE -1) * TrigQ(FoldQ(r), TRUE)
CosOf(r) ==
  (IF r <= HalfPiTenth \/ r > PiTenth + HalfPiTenth THEN 1 ELSE -1)
    * TrigQ(FoldQ(r), FALSE)
Sin(x) == SinOf((10 * x) % TwoPiTenth)
Cos(x) == CosOf((10 * x) % TwoPiTenth)

\* p/n + s p w^2/(n+2) + p w^4/(n+4) + ...: the series of atan (s = -1)
\* and of atanh (s = 1) from p = w, n = 1
RECURSIVE OddSeries(_, _, _, _)
OddSeries(p, w2, n, s) ==
  IF p = 0 THEN 0
  ELSE p \div n + s * OddSeries(Mul(p, w2), w2, n + 2, s)

\* atan of z in [0, 1]: atan(c) + atan((z - c) / (1 + z c)) for the nearest
\* c of 0, 1/4, 1/2, 3/4, 1, and the series for the small remainder
AtanSeries(w) == OddSeries(w, Mul(w, w), 1, -1)
AtanAt(c) ==
  CASE c = 0 -> 0
    [] c = 250000 -> 244979
    [] c = 500000 -> 463648
    [] c = 750000 -> 643501
    [] OTHER -> 785398
AtanNear(z, c) == AtanAt(c) + AtanSeries(Div(z - c, Micro + Mul(z, c)))
Atan01(z) == AtanNear(z, ((z + 125000) \div 250000) * 250000)
\* math.atan2, from the atan t0 of min(|y|, |x|) / max(|y|, |x|)
Atan2Place(y, x, t0) ==
  Sgn(y) * (IF x > 0
            THEN (IF Abs(y) <= Abs(x) THEN t0 ELSE HalfPi - t0)
            ELSE Pi - (IF Abs(y) <= Abs(x) THEN t0 ELSE HalfPi - t0))
Atan2(y, x) ==
  IF y = 0 THEN (IF x >= 0 THEN 0 ELSE Pi)
  ELSE IF x = 0 THEN Sgn(y) * HalfPi
  ELSE Atan2Place(y, x, Atan01(Div(Min2(Abs(y), Abs(x)),
                                   Max2(Abs(y), Abs(x)))))

\* math.log of x > 0: x is brought into [0.75, 1.5) by powers of two, and
\* log x = 2 atanh((x - 1) / (x + 1))
LnNear(w) == 2 * OddSeries(w, Mul(w, w), 1, 1)
RECURSIVE LnRed(_, _)
LnRed(x, k) ==
  IF x >= 1500000 THEN LnRed(x \div 2, k + 1)
  ELSE IF x < 750000 THEN LnRed(x * 2, k - 1)
  ELSE k * 693147 + LnNear(Div(x - Micro, x + Micro))
Ln(x) == LnRed(x, 0)

\* math.radians and math.degrees between 1e-6 degree and 1e-6 radian
\* (Pi / 8 over 180 * Micro / 8: the same ratio in lower terms)
Radians(d) == MulDiv(d, Pi \div 8, (180 * Micro) \div 8)
Degrees(r) == MulDiv(r, (180 * Micro) \div 8, Pi \div 8)

\* IEEE specials
PosInf == 2100000000
NegInf == -2100000000
NaN == 2140000000
IsInf(x) == x = PosInf \/ x = NegInf
IsNaN(x) == x = NaN
IsFinite(x) == ~IsInf(x) /\ ~IsNaN(x)

\* round(x, n) of Python on a value held in units of 10^-k: to the nearest
\* multiple of step = 10^(k-n), ties to the even multiple; nan and inf stay
RoundTo(x, step) ==
  IF ~IsFinite(x) THEN x
  ELSE LET lo == (x \div step) * step
           r  == x - lo
       IN  IF 2 * r < step THEN lo
           ELSE IF 2 * r > step THEN lo + step
           ELSE IF (lo \div step) % 2 = 0 THEN lo ELSE lo + step

\* ------------------------------------------------------------------------
\* Inverse solver: distance() of simple_distance.py and of TT80Calculator.py
\* ------------------------------------------------------------------------
\* ELLIPSOIDS: semi-major axis in 0.01 m, flattening in 1e-6
ELLIPSOIDS ==
  [WGS84             |-> [a |-> 637813700, f |-> 3353],
   GRS80             |-> [a |-> 637813700, f |-> 3353],
   Clarke1866        |-> [a |-> 637820640, f |-> 3390],
   Bessel1841        |-> [a |-> 637739716, f |-> 3343],
   Airy1830          |-> [a |-> 637756340, f |-> 3341],
   International1924 |-> [a |-> 637838800, f |-> 3367],
   Krassowsky1940    |-> [a |-> 637824500, f |-> 3352],
   NAD83             |-> [a |-> 637813700, f |-> 3353],
   sphere            |-> [a |-> 637100000, f |-> 0]]
EllipsoidNames == DOMAIN ELLIPSOIDS

\* what the inverse solver returns, (azimuth in 1e-6 degree, distance in
\* 0.01 m), or raises: the exception's class and message
Returns(azimuth_deg, distance) ==
  [kind |-> "ok", msg |-> "", az |-> azimuth_deg, dist |-> distance]
Raise(class, message) ==
  [kind |-> class, msg |-> message, az |-> 0, dist |-> 0]
ZeroResult == Returns(0, 0)

\* _normalize_azimuth: Python's float % takes the sign of the divisor
normalize_azimuth(azimuth_deg) ==
  IF IsNaN(azimuth_deg) THEN NaN
  ELSE IF azimuth_deg % (360 * Micro) >= 360 * Micro THEN 0
  ELSE azimuth_deg % (360 * Micro)

\* U = atan((1 - f) * tan(lat)), as atan2((1 - f) * sin(lat), cos(lat)):
\* the same angle for a latitude in [-90, 90], and defined at the pole
ReducedLatitude(lat_rad, f) ==
  Atan2(Mul(Micro - f, Sin(lat_rad)), Cos(lat_rad))

\* the locals of _great_circle_distance when its loop is first tested
GCLocals(L, U1, U2) ==
  [L |-> L,
   sin_U1 |-> Sin(U1), cos_U1 |-> Cos(U1),
   sin_U2 |-> Sin(U2), cos_U2 |-> Cos(U2),
   lambda_val |-> L, lambda_prev |-> 2 * Pi,
   iter_limit |-> 100,
   sin_sigma |-> 0, cos_sigma |-> 0, sigma |-> 0, sin_alpha |-> 0,
   cos2_alpha |-> 0, cos_2sigma_m |-> 0, sin_lambda |-> 0, cos_lambda |-> 0,
   returned |-> FALSE]
GCStart(lat1, lon1, lat2, lon2, f) ==
  GCLocals(Radians(lon2) - Radians(lon1),
           ReducedLatitude(Radians(lat1), f),
           ReducedLatitude(Radians(lat2), f))

\* the loop test: abs(lambda_val - lambda_prev) > 1e-12 and iter_limit > 0
GCContinue(v) == Abs(v.lambda_val - v.lambda_prev) > 0 /\ v.iter_limit > 0

\* the loop body, statement by statement
GCTrig(v) ==
  [v EXCEPT !.sin_lambda = Sin(v.lambda_val),
            !.cos_lambda = Cos(v.lambda_val)]
GCSinSigma(v) ==
  [v EXCEPT !.sin_sigma =
     Hypot(Mul(v.cos_U2, v.sin_lambda),
           Mul(v.cos_U1, v.sin_U2)
             - Mul(Mul(v.sin_U1, v.cos_U2), v.cos_lambda))]
GCCosSigma(v) ==
  [v EXCEPT !.cos_sigma = Mul(v.sin_U1, v.sin_U2)
                            + Mul(Mul(v.cos_U1, v.cos_U2), v.cos_lambda)]
GCAngles(v) ==
  [v EXCEPT !.sigma = Atan2(v.sin_sigma, v.cos_sigma),
            !.sin_alpha = Div(Mul(Mul(v.cos_U1, v.cos_U2), v.sin_lambda),
                              v.sin_sigma)]
GCCos2Alpha(v) ==
  [v EXCEPT !.cos2_alpha = Micro - Mul(v.sin_alpha, v.sin_alpha)]
GCCos2SigmaM(v) ==
  [v EXCEPT !.cos_2sigma_m =
     IF v.cos2_alpha = 0 THEN 0
     ELSE v.cos_sigma - Div(2 * Mul(v.sin_U1, v.sin_U2), v.cos2_alpha)]
VincentyC(f, cos2_alpha) ==
  Mul(Mul(f, cos2_alpha), 4 * Micro + Mul(f, 4 * Micro - 3 * cos2_alpha))
    \div 16
GCLambda(v, f, C) ==
  [v EXCEPT
     !.lambda_prev = v.lambda_val,
     !.lambda_val =
       v.L + Mul(Mul(Micro - C, Mul(f, v.sin_alpha)),
                 v.sigma
                   + Mul(Mul(C, v.sin_sigma),
                         v.cos_2sigma_m
                           + Mul(Mul(C, v.cos_sigma),
                                 2 * Mul(v.cos_2sigma_m, v.cos_2sigma_m)
                                   - Micro))),
     !.iter_limit = v.iter_limit - 1]
GCUpdate(v, f) == GCLambda(v, f, VincentyC(f, v.cos2_alpha))
\* from "if sin_sigma == 0" on: the body returns (0.0, 0.0) there
\* ("returned") or runs to its end
GCAfterSinSigma(v, f) ==
  IF v.sin_sigma = 0 THEN [v EXCEPT !.returned = TRUE]
  ELSE GCUpdate(GCCos2SigmaM(GCCos2Alpha(GCAngles(GCCosSigma(v)))), f)
\* one pass through the loop body
GCBody(v, f) == GCAfterSinSigma(GCSinSigma(GCTrig(v)), f)

\* the test made when the loop has been left with iter_limit == 0
AntipodalTest(lat1, lon1, lat2, lon2) ==
  Abs(Abs(lat1) + Abs(lat2) - 180 * Micro) < 1

\* the distance after the loop: u2 = cos2_alpha (a^2 - b^2) / b^2 with the
\* ratio as (a/b)^2 - 1, and A and B with 4096/16384 = 256/1024 taken out
VincentyU2(cos2_alpha, ab) == Mul(cos2_alpha, Mul(ab, ab) - Micro)
VincentyA(u2) ==
  Micro + Mul(u2, 250000
            + Mul(u2, Mul(u2, 320 * Micro - 175 * u2) - 768 * Micro)
                \div 16384)
VincentyB(u2) ==
  Mul(u2, 250000
        + Mul(u2, Mul(u2, 74 * Micro - 47 * u2) - 128 * Micro) \div 1024)
DeltaSigma(B, sin_sigma, cos_sigma, c2) ==
  Mul(Mul(B, sin_sigma),
      c2 + Mul(B \div 4,
               Mul(cos_sigma, 2 * Mul(c2, c2) - Micro)
                 - Mul(Mul(Mul(B \div 6, c2),
                           4 * Mul(sin_sigma, sin_sigma) - 3 * Micro),
                       4 * Mul(c2, c2) - 3 * Micro)))
GCDistanceFrom(v, b, u2) ==
  MulDiv(Mul(b, VincentyA(u2)),
         v.sigma - DeltaSigma(VincentyB(u2), v.sin_sigma, v.cos_sigma,
                              v.cos_2sigma_m),
         Micro)
GCDistance(v, a, f) ==
  GCDistanceFrom(v, Mul(a, Micro - f),
                 VincentyU2(v.cos2_alpha, Div(a, Mul(a, Micro - f))))
\* the azimuth after the loop, forward or back, in radians
GCAzimuthRad(v, back_az) ==
  IF back_az
  THEN Atan2(Mul(v.cos_U1, v.sin_lambda),
             Mul(Mul(v.cos_U1, v.sin_U2), v.cos_lambda)
               - Mul(v.sin_U1, v.cos_U2))
  ELSE Atan2(Mul(v.cos_U2, v.sin_lambda),
             Mul(v.cos_U1, v.sin_U2)
               - Mul(Mul(v.sin_U1, v.cos_U2), v.cos_lambda))

\* the code after the loop
GCFinish(v, lat1, lon1, lat2, lon2, a, f, back_az) ==
  IF v.iter_limit = 0
  THEN IF AntipodalTest(lat1, lon1, lat2, lon2)
       THEN Returns(IF lon2 > lon1 THEN 90 * Micro ELSE 270 * Micro,
                    MulDiv(a, Pi, Micro))
       ELSE Raise("ValueError", "Great circle calculation failed to converge")
  ELSE Returns(normalize_azimuth(Degrees(GCAzimuthRad(v, back_az))),
               GCDistance(v, a, f))

\* "Check if points are the same", in both methods
CoincidentNever(lat1, lon1, lat2, lon2) == FALSE
Coincident(lat1, lon1, lat2, lon2) ==
  Abs(lat1 - lat2) < 1 /\ Abs(lon1 - lon2) < 1

\* the while loop, run to its end: at most n further passes.  The passes are
\* split in halves so that the evaluation nests to depth log n
RECURSIVE GCRun(_, _, _)
GCRun(v, f, n) ==
  IF n = 0 \/ ~GCContinue(v) \/ v.returned THEN v
  ELSE IF n = 1 THEN GCBody(v, f)
  ELSE CHOOSE r \in {GCRun(w, f, n - n \div 2) :
                        w \in {GCRun(v, f, n \div 2)}} : TRUE
GCLoop(v, f) == GCRun(v, f, v.iter_limit)

\* _great_circle_distance as a function of its arguments
GCAfterLoop(v, lat1, lon1, lat2, lon2, a, f, back_az) ==
  IF v.returned THEN ZeroResult
  ELSE GCFinish(v, lat1, lon1, lat2, lon2, a, f, back_az)
great_circle_distance(lat1, lon1, lat2, lon2, a, f, back_az) ==
  IF Coincident(lat1, lon1, lat2, lon2) THEN ZeroResult
  ELSE GCAfterLoop(GCLoop(GCStart(lat1, lon1, lat2, lon2, f), f),
                   lat1, lon1, lat2, lon2, a, f, back_az)

\* IEEE subtraction and atan2 where an operand may be inf or nan
FSub(x, y) ==
  IF IsNaN(x) \/ IsNaN(y) THEN NaN
  ELSE IF IsInf(x) THEN (IF x = y THEN NaN ELSE x)
  ELSE IF IsInf(y) THEN -y
  ELSE x - y
FAtan2(y, x) ==
  IF IsNaN(x) THEN NaN
  ELSE IF x = PosInf THEN 0
  ELSE IF x = NegInf THEN (IF y >= 0 THEN Pi ELSE -Pi)
  ELSE Atan2(y, x)

\* e = sqrt(2 f - f^2), the first eccentricity
Eccentricity(f) == Sqrt(2 * f - Mul(f, f))

\* isometric_latitude of _rhumb_line_distance; log(t * r^(e/2)) is taken as
\* log t + (e/2) log r
IsometricFrom(q, esin_lat, e) ==
  Ln(Div(Sin(q), Cos(q)))
    + Mul(e \div 2, Ln(Div(Micro - esin_lat, Micro + esin_lat)))
isometric_latitude(lat, e) ==
  IF Abs(lat) > HalfPi - 1 THEN (IF lat > 0 THEN PosInf ELSE NegInf)
  ELSE IsometricFrom((HalfPi + lat) \div 2, Mul(e, Sin(lat)), e)

\* the longitude difference of _rhumb_line_distance, brought into [-pi, pi]
NormalizeDlon(dlon) ==
  IF Abs(dlon) > Pi
  THEN (IF dlon > 0 THEN -(2 * Pi - dlon) ELSE 2 * Pi + dlon)
  ELSE dlon

\* the azimuth of _rhumb_line_distance in radians, and in degrees as it is
\* returned
RhumbAzimuthRad(dlon, dpsi) ==
  IF IsFinite(dpsi) /\ Abs(dpsi) < 1
  THEN (IF dlon > 0 THEN HalfPi ELSE -HalfPi)
  ELSE FAtan2(dlon, dpsi)
FDegrees(r) == IF IsNaN(r) THEN NaN ELSE Degrees(r)
FAdd180(azimuth_deg) ==
  IF IsNaN(azimuth_deg) THEN NaN ELSE azimuth_deg + 180 * Micro
RhumbAzimuthDeg(azimuth_rad, back_az) ==
  IF back_az
  THEN normalize_azimuth(FAdd180(normalize_azimuth(FDegrees(azimuth_rad))))
  ELSE normalize_azimuth(FDegrees(azimuth_rad))

\* the distance of _rhumb_line_distance, in 0.01 m; w = 1 - e^2 sin^2
RhumbW(e, sin_lat) == Micro - Mul(Mul(e, e), Mul(sin_lat, sin_lat))
RhumbEastWest(lat1_rad, dlon, a, w_1) ==
  Div(Mul(Mul(a, Cos(lat1_rad)), Abs(dlon)), Sqrt(w_1))
RhumbNorthSouth(lat1_rad, lat2_rad, a, e, w_m) ==
  Div(Mul(Mul(a, Micro - Mul(e, e)), Abs(lat2_rad - lat1_rad)),
      Mul(w_m, Sqrt(w_m)))
RhumbGeneral(dpsi, azimuth_rad, a, w_m) ==
  IF ~IsFinite(dpsi) THEN PosInf
  ELSE Div(Mul(Mul(a, Sqrt(w_m)), Abs(dpsi)), Abs(Cos(azimuth_rad)))
RhumbDistance(lat1_rad, lat2_rad, dlon, dpsi, azimuth_rad, a, e) ==
  IF Abs(lat1_rad - lat2_rad) < 1
  THEN RhumbEastWest(lat1_rad, dlon, a, RhumbW(e, Sin(lat1_rad)))
  ELSE IF IsFinite(dpsi) /\ Abs(dpsi) < 1
  THEN RhumbNorthSouth(lat1_rad, lat2_rad, a, e,
                       RhumbW(e, Sin((lat1_rad + lat2_rad) \div 2)))
  ELSE RhumbGeneral(dpsi, azimuth_rad, a,
                    RhumbW(e, Sin((lat1_rad + lat2_rad) \div 2)))

\* _rhumb_line_distance
RhumbResult(lat1_rad, lat2_rad, dlon, dpsi, azimuth_rad, a, e, back_az) ==
  Returns(RhumbAzimuthDeg(azimuth_rad, back_az),
          RhumbDistance(lat1_rad, lat2_rad, dlon, dpsi, azimuth_rad, a, e))
RhumbFrom(lat1_rad, lat2_rad, dlon, dpsi, a, e, back_az) ==
  RhumbResult(lat1_rad, lat2_rad, dlon, dpsi, RhumbAzimuthRad(dlon, dpsi),
              a, e, back_az)
rhumb_line_distance(lat1, lon1, lat2, lon2, a, e, back_az) ==
  IF Coincident(lat1, lon1, lat2, lon2) THEN ZeroResult
  ELSE RhumbFrom(Radians(lat1), Radians(lat2),
                 NormalizeDlon(Radians(lon2) - Radians(lon1)),
                 FSub(isometric_latitude(Radians(lat2), e),
                      isometric_latitude(Radians(lat1), e)),
                 a, e, back_az)

\* the method names distance() accepts
DistanceMethods == {"great_circle", "rhumb"}

\* the checks distance() makes before it computes: the error it raises, or
\* a record of kind "accepted"
DistanceValidate(lat1, lon1, lat2, lon2, ellipsoid, method) ==
  IF ~(-90 * Micro <= lat1 /\ lat1 <= 90 * Micro)
       \/ ~(-90 * Micro <= lat2 /\ lat2 <= 90 * Micro)
  THEN Raise("ValueError", "Latitude must be between -90 and 90 degrees")
  ELSE IF ~(-180 * Micro <= lon1 /\ lon1 <= 180 * Micro)
            \/ ~(-180 * Micro <= lon2 /\ lon2 <= 180 * Micro)
  THEN Raise("ValueError", "Longitude must be between -180 and 180 degrees")
  ELSE IF ellipsoid \notin EllipsoidNames
  THEN Raise("ValueError", "Unknown ellipsoid")
  ELSE IF method \notin DistanceMethods
  THEN Raise("ValueError", "Method must be 'great_circle' or 'rhumb'")
  ELSE [kind |-> "accepted", msg |-> "", az |-> 0, dist |-> 0]

\* the azimuth's rounding step: simple_distance.py rounds the azimuth to 2
\* decimals, TT80Calculator.py to 5; both round the distance to 2 decimals,
\* which is the resolution the distance is held in
AzimuthStep(module) == IF module = "simple_distance" THEN 10000 ELSE 10
DistanceRound(module, r) ==
  IF r.kind = "ok"
  THEN [r EXCEPT !.az = RoundTo(r.az, AzimuthStep(module)),
                 !.dist = RoundTo(r.dist, 1)]
  ELSE r

\* distance() of either module as a function of its arguments
distance(module, lat1, lon1, lat2, lon2, ellipsoid, method, back_az) ==
  LET chk == DistanceValidate(lat1, lon1, lat2, lon2, ellipsoid, method)
  IN  IF chk.kind # "accepted" THEN chk
      ELSE LET a == ELLIPSOIDS[ellipsoid].a
               f == ELLIPSOIDS[ellipsoid].f
           IN  DistanceRound(module,
                 IF method = "great_circle"
                 THEN great_circle_distance(lat1, lon1, lat2, lon2, a, f,
                                            back_az)
                 ELSE rhumb_line_distance(lat1, lon1, lat2, lon2, a,
                                          Eccentricity(f), back_az))

\* ------------------------------------------------------------------------
\* Direct solver: generate_wgs84_coordinate of coordinate_generator.py
\* ------------------------------------------------------------------------
\* the WGS84 parameters it holds itself: a in 0.01 m, f and e^2 in 1e-6
WGS84_A == ELLIPSOIDS["WGS84"].a
WGS84_F == ELLIPSOIDS["WGS84"].f
WGS84_E2 == Mul(WGS84_F, 2 * Micro - WGS84_F)

\* what generate_wgs84_coordinate returns, (latitude, longitude in 1e-6
\* degree, elevation as given), or raises
Point(new_latitude, new_longitude, new_elevation) ==
  [kind |-> "ok", msg |-> "", lat |-> new_latitude, lon |-> new_longitude,
   elev |-> new_elevation]
RaiseDirect(class, message) ==
  [kind |-> class, msg |-> message, lat |-> 0, lon |-> 0, elev |-> 0]

\* abs(x) < 1e-10 of a computed sine or cosine: the sine of math.pi, 1e-16
\* in the program, is one unit of the last place here
Negligible(x) == Abs(x) <= 1

\* the methods generate_wgs84_coordinate accepts
DirectMethods == {"great_circle", "rhumb_line"}

\* its input validation: the error raised, or a record of kind "accepted"
DirectValidate(latitude, longitude, bearing, distance_m, method) ==
  IF ~(-90 * Micro <= latitude /\ latitude <= 90 * Micro)
  THEN RaiseDirect("ValueError",
                   "Latitude must be between -90 and 90 degrees")
  ELSE IF ~(-180 * Micro <= longitude /\ longitude <= 180 * Micro)
  THEN RaiseDirect("ValueError",
                   "Longitude must be between -180 and 180 degrees")
  ELSE IF ~(0 <= bearing /\ bearing <= 360 * Micro)
  THEN RaiseDirect("ValueError",
                   "Bearing must be between 0 and 360 degrees")
  ELSE IF distance_m < 0
  THEN RaiseDirect("ValueError", "Distance must be non-negative")
  ELSE IF method \notin DirectMethods
  THEN RaiseDirect("ValueError",
                   "Method must be 'great_circle' or 'rhumb_line', got "
                     \o method)
  ELSE RaiseDirect("accepted", "")

\* the locals of _vincenty_direct when its loop is first tested.  cos_u1 and
\* sin_u1 are those of U1 = atan((1 - f) tan(lat1)); sigma1 =
\* atan2(tan_u1, cos_alpha1) is taken with both arguments times cos_u1;
\* base is distance / (b * A); new_longitude is the caller's local of that
\* name before it is normalized
VDLocals(lon1, bearing, U1) ==
  [lon1 |-> lon1,
   sin_alpha1 |-> Sin(bearing), cos_alpha1 |-> Cos(bearing),
   sin_u1 |-> Sin(U1), cos_u1 |-> Cos(U1),
   sigma1 |-> Atan2(Sin(U1), Mul(Cos(U1), Cos(bearing))),
   sin_alpha |-> Mul(Cos(U1), Sin(bearing)),
   cos2_alpha |-> 0, B |-> 0, base |-> 0,
   sigma |-> 0, sigma_prev |-> 2 * Pi,
   cos_2sigma_m |-> 0, sin_sigma |-> 0, cos_sigma |-> 0,
   new_longitude |-> 0]
VDSeries(v, distance_m, b, u2) ==
  [v EXCEPT !.B = VincentyB(u2),
            !.base = MulDiv(distance_m, Micro, Mul(b, VincentyA(u2))),
            !.sigma = MulDiv(distance_m, Micro, Mul(b, VincentyA(u2)))]
VDCos2Alpha(v) ==
  [v EXCEPT !.cos2_alpha = Micro - Mul(v.sin_alpha, v.sin_alpha)]
VDStartFrom(v, distance_m, a, f) ==
  VDSeries(v, distance_m, Mul(a, Micro - f),
           VincentyU2(v.cos2_alpha, Div(a, Mul(a, Micro - f))))
VDStart(lat1, lon1, bearing, distance_m, a, f) ==
  VDStartFrom(VDCos2Alpha(VDLocals(lon1, bearing,
                                   ReducedLatitude(lat1, f))),
              distance_m, a, f)

\* the loop test: abs(sigma - sigma_prev) > 1e-12
VDContinue(v) == Abs(v.sigma - v.sigma_prev) > 0

\* one pass through the loop body
VDTrig(v) ==
  [v EXCEPT !.cos_2sigma_m = Cos(2 * v.sigma1 + v.sigma),
            !.sin_sigma = Sin(v.sigma),
            !.cos_sigma = Cos(v.sigma)]
VDUpdate(v) ==
  [v EXCEPT !.sigma_prev = v.sigma,
            !.sigma = v.base + DeltaSigma(v.B, v.sin_sigma, v.cos_sigma,
                                          v.cos_2sigma_m)]
VDBody(v) == VDUpdate(VDTrig(v))

\* the code after the loop: <<lat2, lon2>> in radians
VDLatitude(v, f, tmp) ==
  Atan2(Mul(v.sin_u1, v.cos_sigma)
          + Mul(Mul(v.cos_u1, v.sin_sigma), v.cos_alpha1),
        Mul(Micro - f, Hypot(v.sin_alpha, tmp)))
VDLambda(v) ==
  Atan2(Mul(v.sin_sigma, v.sin_alpha1),
        Mul(v.cos_u1, v.cos_sigma)
          - Mul(Mul(v.sin_u1, v.sin_sigma), v.cos_alpha1))
VDL(v, f, lambda_val, C) ==
  lambda_val
    - Mul(Mul(Micro - C, Mul(f, v.sin_alpha)),
          v.sigma
            + Mul(Mul(C, v.sin_sigma),
                  v.cos_2sigma_m
                    + Mul(Mul(C, v.cos_sigma),
                          2 * Mul(v.cos_2sigma_m, v.cos_2sigma_m) - Micro)))
VDLongitude(lon1, L) == ((lon1 + L + 3 * Pi) % (2 * Pi)) - Pi
VDFinish(v, f) ==
  << VDLatitude(v, f, Mul(v.sin_u1, v.sin_sigma)
                        - Mul(Mul(v.cos_u1, v.cos_sigma), v.cos_alpha1)),
     VDLongitude(v.lon1, VDL(v, f, VDLambda(v),
                             VincentyC(f, v.cos2_alpha))) >>

\* the while loop run to its end; it has no bound of its own
RECURSIVE VDLoop(_)
VDLoop(v) == IF VDContinue(v) THEN VDLoop(VDBody(v)) ELSE v

\* _vincenty_direct as a function of its arguments
vincenty_direct(lat1, lon1, bearing, distance_m, a, f) ==
  VDFinish(VDLoop(VDStart(lat1, lon1, bearing, distance_m, a, f)), f)

\* the radii of curvature, in 0.01 m
MeridionalFrom(a, e2, w) == Div(Mul(a, Micro - e2), Mul(w, Sqrt(w)))
meridional_radius_of_curvature(lat, a, e2) ==
  MeridionalFrom(a, e2, Micro - Mul(e2, Mul(Sin(lat), Sin(lat))))
prime_vertical_radius_of_curvature(lat, a, e2) ==
  Div(a, Sqrt(Micro - Mul(e2, Mul(Sin(lat), Sin(lat)))))

\* distance * trig / radius, in 1e-6 radian
AngleOver(distance_m, trig, radius) ==
  Sgn(radius) * MulDiv(Mul(distance_m, trig), Micro, Abs(radius))

\* max(-pi/2, min(pi/2, lat2))
ClampLatitude(lat2) == Max2(-HalfPi, Min2(HalfPi, lat2))

\* isometric_latitude of _rhumb_line_direct
DirectIsometricFrom(q, e, esin) ==
  Ln(Div(Sin(q), Cos(q)))
    - Mul(e \div 2, Ln(Div(Micro + esin, Micro - esin)))
direct_isometric_latitude(lat, e) ==
  IF Abs(lat) >= HalfPi THEN (IF lat > 0 THEN PosInf ELSE NegInf)
  ELSE DirectIsometricFrom((HalfPi + lat) \div 2, e, Mul(e, Sin(lat)))

\* IEEE: inf * x for x # 0, and a sum with an inf or nan term
FScale(x, t) ==
  IF IsNaN(x) THEN NaN
  ELSE IF IsInf(x) THEN (IF t = 0 THEN NaN ELSE Sgn(t) * x)
  ELSE Mul(x, t)
FSum(x, y) ==
  IF IsNaN(x) \/ IsNaN(y) THEN NaN
  ELSE IF IsInf(x) THEN (IF IsInf(y) /\ x # y THEN NaN ELSE x)
  ELSE IF IsInf(y) THEN y
  ELSE x + y

\* the general case of _rhumb_line_direct: the change of longitude
RhumbDeltaLon(lat1, bearing, distance_m, a, e2, delta_iso_lat) ==
  IF IsFinite(delta_iso_lat) /\ Abs(delta_iso_lat) < 1
  THEN AngleOver(distance_m, Sin(bearing),
                 Mul(prime_vertical_radius_of_curvature(lat1, a, e2),
                     Cos(lat1)))
  ELSE FScale(delta_iso_lat, Div(Sin(bearing), Cos(bearing)))
RhumbGeneralDirect(lat1, lon1, bearing, distance_m, a, e2, lat2) ==
  << lat2,
     FSum(lon1,
          RhumbDeltaLon(lat1, bearing, distance_m, a, e2,
                        FSub(direct_isometric_latitude(lat2, Sqrt(e2)),
                             direct_isometric_latitude(lat1, Sqrt(e2))))) >>

\* _rhumb_line_direct: <<lat2, lon2>> in radians
rhumb_line_direct(lat1, lon1, bearing, distance_m, a, e2) ==
  IF Negligible(Sin(bearing))
  THEN << ClampLatitude(
            lat1 + AngleOver(distance_m, Cos(bearing),
                             meridional_radius_of_curvature(lat1, a, e2))),
          lon1 >>
  ELSE IF Negligible(Cos(bearing))
  THEN << lat1,
          FSum(lon1,
               AngleOver(distance_m, Sin(bearing),
                         Mul(prime_vertical_radius_of_curvature(lat1, a, e2),
                             Cos(lat1)))) >>
  ELSE RhumbGeneralDirect(
         lat1, lon1, bearing, distance_m, a, e2,
         ClampLatitude(
           lat1 + AngleOver(distance_m, Cos(bearing),
                            meridional_radius_of_curvature(lat1, a, e2))))

\* "Normalize longitude to [-180, 180]": ((x + 180) % 360) - 180; inf % 360
\* is nan
NormalizeLongitude(new_longitude) ==
  IF ~IsFinite(new_longitude) THEN NaN
  ELSE ((new_longitude + 180 * Micro) % (360 * Micro)) - 180 * Micro

\* math.degrees of a longitude that may be inf or nan
FDegreesLon(r) == IF IsFinite(r) THEN Degrees(r) ELSE r

\* generate_wgs84_coordinate from "Convert back to degrees" on
DirectResultNoElevation(new_rad, elevation) ==
  Point(Degrees(new_rad[1]), NormalizeLongitude(FDegreesLon(new_rad[2])), 0)
DirectResult(new_rad, elevation) ==
  Point(Degrees(new_rad[1]), NormalizeLongitude(FDegreesLon(new_rad[2])),
        elevation)

\* generate_wgs84_coordinate as a function of its arguments
DirectSolve(latitude, longitude, bearing, distance_m, method) ==
  IF method = "great_circle"
  THEN vincenty_direct(Radians(latitude), Radians(longitude),
                       Radians(bearing), distance_m, WGS84_A, WGS84_F)
  ELSE rhumb_line_direct(Radians(latitude), Radians(longitude),
                         Radians(bearing), distance_m, WGS84_A, WGS84_E2)
generate_wgs84_coordinate(latitude, longitude, elevation, bearing, distance_m, method) ==
  IF DirectValidate(latitude, longitude, bearing, distance_m, method).kind
       # "accepted"
  THEN DirectValidate(latitude, longitude, bearing, distance_m, method)
  ELSE DirectResult(DirectSolve(latitude, longitude, bearing, distance_m,
                                method),
                    elevation)

\* ------------------------------------------------------------------------
\* Elevation profile: generate_equidistant_points of TT80Calculator.py
\* ------------------------------------------------------------------------
\* elevations are in 0.01 m as arguments and in 1e-5 m in a profile, whose
\* distances from the start are in 1e-5 m too
Fine == 1000

\* validate_coordinates without its check of the elevation
ValidateCoordinatesNoElevation(lat, lon, elevation, point_name) ==
  IF lat < -90 * Micro \/ lat > 90 * Micro
  THEN Raise("ValueError", point_name
                             \o ": Latitude must be between -90 and 90 degrees")
  ELSE IF lon < -180 * Micro \/ lon > 180 * Micro
  THEN Raise("ValueError",
             point_name
               \o ": Longitude must be between -180 and 180 degrees")
  ELSE Raise("accepted", "")

\* validate_coordinates: the error raised, or a record of kind "accepted"
validate_coordinates(lat, lon, elevation, point_name) ==
  IF lat < -90 * Micro \/ lat > 90 * Micro
  THEN Raise("ValueError", point_name
                             \o ": Latitude must be between -90 and 90 degrees")
  ELSE IF lon < -180 * Micro \/ lon > 180 * Micro
  THEN Raise("ValueError",
             point_name
               \o ": Longitude must be between -180 and 180 degrees")
  ELSE IF elevation < -11000 * 100 \/ elevation > 9000 * 100
  THEN Raise("ValueError", point_name \o ": Elevation seems unrealistic")
  ELSE Raise("accepted", "")

\* calculate_initial_bearing: radians
InitialBearingFrom(lat1_rad, lat2_rad, dlon_rad) ==
  Atan2(Mul(Sin(dlon_rad), Cos(lat2_rad)),
        Mul(Cos(lat1_rad), Sin(lat2_rad))
          - Mul(Mul(Sin(lat1_rad), Cos(lat2_rad)), Cos(dlon_rad)))
calculate_initial_bearing(lat1, lon1, lat2, lon2) ==
  InitialBearingFrom(Radians(lat1), Radians(lat2), Radians(lon2 - lon1))

\* math.asin
Asin(x) == Atan2(x, Sqrt(Micro - Mul(x, x)))

\* calculate_destination_point: <<lat2, lon2>> in 1e-6 degree from a
\* bearing in radians and a distance in 0.01 m on the sphere of radius R
R == 637813700
DestinationLon(lat_rad, lon_rad, bearing, angular_distance, lat2_rad) ==
  lon_rad
    + Atan2(Mul(Mul(Sin(bearing), Sin(angular_distance)), Cos(lat_rad)),
            Cos(angular_distance) - Mul(Sin(lat_rad), Sin(lat2_rad)))
DestinationLat(lat_rad, bearing, angular_distance) ==
  Asin(Mul(Sin(lat_rad), Cos(angular_distance))
         + Mul(Mul(Cos(lat_rad), Sin(angular_distance)), Cos(bearing)))
DestinationFrom(lat_rad, lon_rad, bearing, angular_distance, lat2_rad) ==
  << Degrees(lat2_rad),
     NormalizeLongitude(
       Degrees(DestinationLon(lat_rad, lon_rad, bearing, angular_distance,
                              lat2_rad))) >>
DestinationAt(lat_rad, lon_rad, bearing, angular_distance) ==
  DestinationFrom(lat_rad, lon_rad, bearing, angular_distance,
                  DestinationLat(lat_rad, bearing, angular_distance))
calculate_destination_point(lat, lon, bearing, distance_m) ==
  DestinationAt(Radians(lat), Radians(lon), bearing,
                MulDiv(distance_m, Micro, R))

\* the slope angle taken in degrees instead of radians: math.degrees of
\* the arctangent, in 1e-6 degree
ElevationSlopeInDegrees(elevation1, elevation2, total_distance) ==
  IF total_distance = 0 THEN 0
  ELSE Degrees(Atan2(elevation2 - elevation1, total_distance))

\* calculate_elevation_slope: the angle atan(rise / run) in 1e-6 radian
calculate_elevation_slope(elevation1, elevation2, total_distance) ==
  IF total_distance = 0 THEN 0
  ELSE Atan2(elevation2 - elevation1, total_distance)

\* interpolate_elevation: start_elevation + slope * distance_along_path,
\* all lengths in 1e-5 m
interpolate_elevation(start_elevation, slope, distance_along_path) ==
  start_elevation + MulDiv(distance_along_path, slope, Micro)

\* distance_interval * i = total_distance * i / (num_points + 1) in 1e-5 m:
\* <<whole, rest>> with total_distance * i = whole * over + rest
WholeAndRest(hi, h) == <<hi + h[1], h[2]>>
MulDivExact(a, b, c) ==
  WholeAndRest((a \div c) * b, QuoRem(a % c, b, c))
DistanceFromStartBack(total_distance, i, over) ==
  MulDivExact(total_distance * Fine, over - i, over)
DistanceFromStart(total_distance, i, over) ==
  MulDivExact(total_distance * Fine, i, over)
\* df[...].round(5) of it: to the nearest 1e-5 m, a tie to the even one
Round5(d, over) ==
  IF 2 * d[2] > over \/ (2 * d[2] = over /\ d[1] % 2 = 1) THEN d[1] + 1
  ELSE d[1]

\* an elevation of the profile is <<e, below>>: e in 0.01 m and the part of
\* the value below 1e-5 m, in 1e-8 m (0 .. Fine - 1)
\* the 0.01 m value that compares with the limits -11000 m and 9000 m as
\* the elevation does
ElevationCompared(elev) ==
  IF elev[2] > 0 /\ elev[1] >= 0 THEN elev[1] + 1 ELSE elev[1]
\* df['elevation_m'].round(5) of the elevation whose part above 1e-5 m is
\* whole (in 1e-5 m): to the nearest 1e-5 m, a tie to the even one
RoundElevation(whole, elev) == Round5(<<whole, elev[2]>>, Fine)

\* one row of the profile; the rounding of latitude and longitude to 9
\* places does not show at this resolution
ProfileRow(point_number, point_type, latitude, longitude, elevation_m, distance_from_start_m) ==
  [point_number |-> point_number, point_type |-> point_type,
   latitude |-> latitude, longitude |-> longitude,
   elevation_m |-> elevation_m,
   distance_from_start_m |-> distance_from_start_m]

\* what generate_equidistant_points returns: the list comprehension keeps
\* the points of type 'Intermediate', which no point has
ProfileReturns(df, total_distance, elevation_slope) ==
  [kind |-> "ok", msg |-> "", intermediate_points |-> << >>, df |-> df,
   total_distance |-> total_distance, elevation_slope |-> elevation_slope]
ProfileRaise(class, message) ==
  [kind |-> class, msg |-> message, intermediate_points |-> << >>,
   df |-> << >>, total_distance |-> 0, elevation_slope |-> 0]

\* the locals of generate_equidistant_points when its loop is first
\* tested: i is the value the loop variable takes next
ProfileLocals(lat1, lon1, elev1, initial_bearing, total_distance, num_points) ==
  [initial_bearing |-> initial_bearing,
   total_distance |-> total_distance,
   elevation_slope |-> 0,
   i |-> 1,
   points |-> << ProfileRow(0, <<"Rwy_Start">>, lat1, lon1,
                            RoundElevation(elev1[1] * Fine, elev1), 0) >>]
ProfileSlope(v, elev1, elev2) ==
  [v EXCEPT !.elevation_slope =
              calculate_elevation_slope(elev1[1], elev2[1],
                                        v.total_distance)]
ProfileStart(lat1, lon1, elev1, lat2, lon2, elev2, num_points, total_distance) ==
  ProfileSlope(ProfileLocals(lat1, lon1, elev1,
                             calculate_initial_bearing(lat1, lon1, lat2,
                                                       lon2),
                             total_distance, num_points),
               elev1, elev2)

\* for i in range(1, num_points + 1): is there a next i
ProfileContinueShort(v, num_points) == v.i < num_points
ProfileContinue(v, num_points) == v.i <= num_points

\* the loop body for the distance d from the start and the point there
ProfileAppend(v, elev1, d, over, lat_lon) ==
  [v EXCEPT !.i = v.i + 1,
            !.points = Append(v.points,
                              ProfileRow(v.i, <<"TT80_pt_", v.i>>,
                                         lat_lon[1], lat_lon[2],
                                         RoundElevation(
                                           interpolate_elevation(
                                             elev1[1] * Fine,
                                             v.elevation_slope, d[1]),
                                           elev1),
                                         Round5(d, over)))]
ProfileAt(v, lat1, lon1, elev1, d, over) ==
  ProfileAppend(v, elev1, d, over,
                calculate_destination_point(
                  lat1, lon1, v.initial_bearing,
                  (d[1] + Fine \div 2) \div Fine))
ProfileBody(v, lat1, lon1, elev1, num_points) ==
  ProfileAt(v, lat1, lon1, elev1,
            DistanceFromStart(v.total_distance, v.i, num_points + 1),
            num_points + 1)

\* the code after the loop
ProfileFinish(v, lat2, lon2, elev2, num_points) ==
  ProfileReturns(Append(v.points,
                        ProfileRow(num_points + 1, <<"Rwy_End">>, lat2, lon2,
                                   RoundElevation(elev2[1] * Fine, elev2),
                                   v.total_distance * Fine)),
                 v.total_distance, v.elevation_slope)

\* num_points + 1 = 0 divides by zero
ProfileDivides(num_points) == num_points + 1 # 0

\* ------------------------------------------------------------------------
\* Procedure builder: makerunway_kml of runwaykml.py
\* ------------------------------------------------------------------------
\* feet are in 0.01 ft, nautical miles in 0.01 nm, metres in 0.01 m
f2m(feet) == MulDiv(feet, 3048, 10000)
m2f(meters) == MulDiv(meters, 328084, 100000)
nm2f(nautical_miles) == MulDiv(nautical_miles, 607612, 100)

\* math.ceil(x / step) * step
CeilTo(x, step) == ((x + step - 1) \div step) * step

\* the generate_equidistant_points loop run to its end
RECURSIVE ProfileRun(_, _, _, _, _, _)
ProfileRun(v, lat1, lon1, elev1, num_points, n) ==
  IF n = 0 \/ ~ProfileContinue(v, num_points) THEN v
  ELSE IF n = 1 THEN ProfileBody(v, lat1, lon1, elev1, num_points)
  ELSE CHOOSE r \in {ProfileRun(w, lat1, lon1, elev1, num_points,
                                 n - n \div 2) :
                        w \in {ProfileRun(v, lat1, lon1, elev1, num_points,
                                           n \div 2)}} : TRUE
ProfileLoop(v, lat1, lon1, elev1, num_points) ==
  ProfileRun(v, lat1, lon1, elev1, num_points, num_points)

\* generate_equidistant_points as a function of its arguments
ProfileFromDistance(lat1, lon1, elev1, lat2, lon2, elev2, num_points, inverse) ==
  IF inverse.kind # "ok" THEN ProfileRaise(inverse.kind, inverse.msg)
  ELSE IF ~ProfileDivides(num_points)
  THEN ProfileRaise("ZeroDivisionError", "float division by zero")
  ELSE ProfileFinish(
         ProfileLoop(ProfileStart(lat1, lon1, elev1, lat2, lon2, elev2,
                                  num_points, inverse.dist),
                     lat1, lon1, elev1, num_points),
         lat2, lon2, elev2, num_points)
generate_equidistant_points(lat1, lon1, elev1, lat2, lon2, elev2, num_points) ==
  IF validate_coordinates(lat1, lon1, ElevationCompared(elev1),
                          "Start point").kind # "accepted"
  THEN ProfileRaise("ValueError",
                    validate_coordinates(lat1, lon1, ElevationCompared(elev1),
                                         "Start point").msg)
  ELSE IF validate_coordinates(lat2, lon2, ElevationCompared(elev2),
                               "End point").kind # "accepted"
  THEN ProfileRaise("ValueError",
                    validate_coordinates(lat2, lon2, ElevationCompared(elev2),
                                         "End point").msg)
  ELSE CHOOSE r \in
         { ProfileFromDistance(lat1, lon1, elev1, lat2, lon2, elev2,
                               num_points, inverse) :
             inverse \in
               { distance("TT80Calculator", lat1, lon1, lat2, lon2,
                          "WGS84", "great_circle", FALSE) } } : TRUE

\* geoidheight of geoidheight_fortran.py for a coefficient file: the file
\* is not part of the repository, and the sum of its series is taken as an
\* undulation, in 0.01 m, that is linear in the longitude
GeoidReturns(undulation) == [kind |-> "ok", msg |-> "", value |-> undulation]
GeoidRaise(class, message) == [kind |-> class, msg |-> message, value |-> 0]
geoidheight(latitude, longitude, table) ==
  IF ~table.found
  THEN GeoidRaise("FileNotFoundError", "EGM96 coefficient file not found")
  ELSE IF ~(-90 * Micro <= latitude /\ latitude <= 90 * Micro)
  THEN GeoidRaise("ValueError",
                  "Latitude must be between -90 and 90 degrees")
  ELSE IF ~(-180 * Micro <= longitude /\ longitude <= 180 * Micro)
  THEN GeoidRaise("ValueError",
                  "Longitude must be between -180 and 180 degrees")
  ELSE GeoidReturns(table.undulation
                      + table.tilt * ((longitude - table.lon0) \div 1000))

\* ------------------------------------------------------------------------
\* Geoid model: FortranGeoidHeight and geoidheight of geoidheight_fortran.py
\* ------------------------------------------------------------------------
\* A coefficient is held in units of 1e-9, a Legendre function and a sine
\* in 1e-6, the undulation in 0.01 m.  A line of the coefficient file is
\* the sequence of its fields after split(); a field is a token that int()
\* accepts ("int"), that only float() accepts ("float"), or neither
\* ("text").  The value of a coefficient field is in units of 1e-9.
Token(kind, value) == [kind |-> kind, value |-> value]
IntParses(t) == t.kind = "int"
FloatParses(t) == t.kind \in {"int", "float"}

\* what load_egm96_coefficients returns, or raises
LoadReturns(coefficients) ==
  [kind |-> "ok", msg |-> "", coefficients |-> coefficients]
LoadRaise(class, message) ==
  [kind |-> class, msg |-> message, coefficients |-> << >>]

\* one line of the file: "if len(parts) >= 4" and the try around the four
\* conversions; a line that fails either is passed over
LineParses(parts) ==
  /\ Len(parts) >= 4
  /\ IntParses(parts[1]) /\ IntParses(parts[2])
  /\ FloatParses(parts[3]) /\ FloatParses(parts[4])
LoadLine(parts, coefficients) ==
  IF parts = << >> \/ ~LineParses(parts) THEN coefficients
  ELSE [key \in DOMAIN coefficients
                  \cup {<<parts[1].value, parts[2].value>>} |->
          IF key = <<parts[1].value, parts[2].value>>
          THEN [C |-> parts[3].value, S |-> parts[4].value]
          ELSE coefficients[key]]
RECURSIVE LoadLines(_, _, _)
LoadLines(lines, k, coefficients) ==
  IF k > Len(lines) THEN coefficients
  ELSE LoadLines(lines, k + 1, LoadLine(lines[k], coefficients))
load_egm96_coefficients(file) ==
  IF ~file.exists
  THEN LoadRaise("FileNotFoundError", "No such file or directory")
  ELSE LoadReturns(LoadLines(file.lines, 1, [key \in {} |-> 0]))

\* the reference even zonals J2, J4, J6, J8, J10 in units of 1e-9
J2 == 1082630
J4 == -2371
J6 == 6
J8 == 0
J10 == 0

\* _apply_reference_zonals: self.hc[(n, 0)]['C'] += J / divisor
AddZonal(hc, n, amount) ==
  IF <<n, 0>> \in DOMAIN hc
  THEN [hc EXCEPT ![<<n, 0>>].C = @ + amount]
  ELSE hc
apply_reference_zonals(hc) ==
  AddZonal(
    AddZonal(
      AddZonal(
        AddZonal(AddZonal(hc, 2, Div(J2, Sqrt(5 * Micro))),
                 4, Div(J4, 3 * Micro)),
        6, Div(J6, Sqrt(13 * Micro))),
      8, Div(J8, Sqrt(17 * Micro))),
    10, Div(J10, Sqrt(21 * Micro)))

\* a FortranGeoidHeight object, and None
Calculator(hc, max_degree) ==
  [built |-> TRUE, hc |-> hc, max_degree |-> max_degree]
None == [built |-> FALSE, hc |-> << >>, max_degree |-> 0]
InitReturns(calculator) ==
  [kind |-> "ok", msg |-> "", calculator |-> calculator]
InitRaise(class, message) ==
  [kind |-> class, msg |-> message, calculator |-> None]

\* max(n for (n, m) in self.hc.keys())
MaxOf(S) == CHOOSE x \in S : \A y \in S : y <= x
HighestDegree(hc) == MaxOf({ key[1] : key \in DOMAIN hc })

\* FortranGeoidHeight.__init__ for the default coefficient file
InitAfterLoad(loaded, max_degree) ==
  IF loaded.kind # "ok" THEN InitRaise(loaded.kind, loaded.msg)
  ELSE IF DOMAIN loaded.coefficients = {}
  THEN InitRaise("ValueError", "max() arg is an empty sequence")
  ELSE InitReturns(
         Calculator(apply_reference_zonals(loaded.coefficients),
                    Min2(max_degree, HighestDegree(loaded.coefficients))))
FortranGeoidHeight(file, max_degree) ==
  InitAfterLoad(load_egm96_coefficients(file), max_degree)

\* the WGS84 constants of the class: E2, K_GRAVITY in 1e-6, GEQT in
\* 1e-6 m/s2, GM / AE in m2/s2; lengths in _radgra are taken in units of AE
E2 == 6694
GEQT == 9780325
K_GRAVITY == 1932
GM_over_AE == 62494810

\* _radgra at ht = 0: geocentric latitude, distance and normal gravity
RadgraFrom(t1, n, coslat, sinlat, flonr) ==
  LET t2 == Mul(n, coslat)
      x == Mul(t2, Cos(flonr))
      y == Mul(t2, Sin(flonr))
      z == Mul(Mul(n, Micro - E2), sinlat)
  IN [rlat |-> Atan2(z, Hypot(x, y)),
      gr |-> MulDiv(GEQT, Micro + Mul(K_GRAVITY, t1),
                    Sqrt(Micro - Mul(E2, t1))),
      re |-> Hypot(Hypot(x, y), z)]
radgra(flat, flon) ==
  LET flatr == Radians(flat)
      sinlat == Sin(flatr)
      t1 == Mul(sinlat, sinlat)
  IN RadgraFrom(t1, Div(Micro, Sqrt(Micro - Mul(E2, t1))), Cos(flatr),
                sinlat, Radians(flon))

\* _dscml: sin(m * rlon) and cos(m * rlon) for m = 1 .. nmax by the
\* recurrence of the code
RECURSIVE DscmlRun(_, _, _, _)
DscmlRun(t, m, b, nmax) ==
  IF m > nmax THEN t
  ELSE DscmlRun(
         [sinml |-> Append(t.sinml,
                           Mul(2 * b, t.sinml[m - 1]) - t.sinml[m - 2]),
          cosml |-> Append(t.cosml,
                           Mul(2 * b, t.cosml[m - 1]) - t.cosml[m - 2])],
         m + 1, b, nmax)
DscmlStart(a, b, nmax) ==
  IF nmax = 1 THEN [sinml |-> <<a>>, cosml |-> <<b>>]
  ELSE DscmlRun([sinml |-> <<a, 2 * Mul(b, a)>>,
                 cosml |-> <<b, 2 * Mul(b, b) - Micro>>], 3, b, nmax)
dscml(rlon, nmax) == DscmlStart(Sin(rlon), Cos(rlon), nmax)

\* _legfdn: the normalised Legendre functions of order m for the degrees
\* m .. nmx; rleg[n + 1] is the function of degree n.  The two branches
\* "if m == 0" and "if m == 1" store what the general step stores.
Drts(n) == Sqrt(n * Micro)
Dirt(n) == IF Drts(n) # 0 THEN Div(Micro, Drts(n)) ELSE 0
RECURSIVE Rlnn(_, _)
Rlnn(n1, sithet) ==
  IF n1 = 1 THEN Micro
  ELSE IF n1 = 2 THEN Mul(sithet, Drts(3))
  ELSE Mul(Mul(Mul(Drts(2 * (n1 - 1) + 1), Dirt(2 * (n1 - 1))), sithet),
           Rlnn(n1 - 1, sithet))
LegTerm(rleg, n1, m, cothet) ==
  LET n == n1 - 1
  IN Mul(Mul(Mul(Drts(2 * n + 1), Dirt(n + m)), Dirt(n - m)),
         Mul(Mul(Drts(2 * n - 1), cothet), rleg[n1 - 1])
         - Mul(Mul(Mul(Drts(n + m - 1), Drts(n - m - 1)), Dirt(2 * n - 3)),
               rleg[n1 - 2]))
RECURSIVE LegRun(_, _, _, _, _)
LegRun(rleg, n1, m, cothet, nmx) ==
  IF n1 > nmx + 1 THEN rleg
  ELSE LegRun([rleg EXCEPT ![n1] = LegTerm(rleg, n1, m, cothet)],
              n1 + 1, m, cothet, nmx)
LegSecond(rleg, m, cothet, nmx) ==
  IF m + 2 > nmx + 1 THEN rleg
  ELSE LegRun([rleg EXCEPT ![m + 2] =
                 Mul(Mul(Drts(2 * (m + 1) + 1), cothet), rleg[m + 1])],
              m + 3, m, cothet, nmx)
legfdn(m, theta, nmx) ==
  LegSecond([i \in 1..(nmx + 1) |->
               IF i = m + 1 THEN Rlnn(m + 1, Sin(theta)) ELSE 0],
            m, Cos(theta), nmx)

\* _hundu: the sum over the coefficients present in the table (the
\* correction coefficients are all zero, so ac stays 0 and haco is 0)
HunduTerm(hc, p, t, n, m) ==
  IF <<n, m>> \notin DOMAIN hc THEN 0
  ELSE IF m = 0 THEN Mul(p[0][n + 1], hc[<<n, m>>].C)
  ELSE Mul(p[m][n + 1],
           Mul(hc[<<n, m>>].C, t.cosml[m]) + Mul(hc[<<n, m>>].S, t.sinml[m]))
RECURSIVE HunduOrders(_, _, _, _, _)
HunduOrders(hc, p, t, n, m) ==
  IF m > n THEN 0
  ELSE HunduTerm(hc, p, t, n, m) + HunduOrders(hc, p, t, n, m + 1)
RECURSIVE HunduDegrees(_, _, _, _, _, _, _)
HunduDegrees(hc, p, t, n, nmax, arn, ar) ==
  IF n > nmax THEN 0
  ELSE Mul(HunduOrders(hc, p, t, n, 0), Mul(arn, ar))
       + HunduDegrees(hc, p, t, n + 1, nmax, Mul(arn, ar), ar)
hundu(nmax, p, hc, t, gr, re) ==
  MulDiv(HunduDegrees(hc, p, t, 2, nmax, Div(Micro, re), Div(Micro, re)),
         Div(MulDiv(GM_over_AE, Micro, gr), re), 10 * Micro) - 53

\* FortranGeoidHeight.geoidheight: the two range checks, then the value
MethodValue(self, g, flon) ==
  LET nmax == self.max_degree
      theta == HalfPi - g.rlat
  IN hundu(nmax, [m \in 0..nmax |-> legfdn(m, theta, nmax)], self.hc,
           dscml(Radians(flon), nmax), g.gr, g.re)
FortranGeoidHeight_geoidheight(self, latitude, longitude) ==
  IF ~(-90 * Micro <= latitude /\ latitude <= 90 * Micro)
  THEN GeoidRaise("ValueError",
                  "Latitude must be between -90 and 90 degrees")
  ELSE IF ~(-180 * Micro <= longitude /\ longitude <= 180 * Micro)
  THEN GeoidRaise("ValueError",
                  "Longitude must be between -180 and 180 degrees")
  ELSE IF self.max_degree < 1
  THEN GeoidRaise("IndexError", "list assignment index out of range")
  ELSE GeoidReturns(
         CHOOSE u \in { MethodValue(self, g, longitude) :
                          g \in { radgra(latitude, longitude) } } : TRUE)

\* the global calculator, were the reference zonals added again to a
\* model that is used again
GlobalCalculatorReadjusted(g, max_degree) ==
  IF ~g.calculator.built \/ g.calculator.max_degree # max_degree
  THEN FortranGeoidHeight(g.file, max_degree)
  ELSE InitReturns([g.calculator EXCEPT !.hc = apply_reference_zonals(@)])
\* the module function geoidheight: _global_calculator is replaced when
\* it is None or was built for another max_degree, and then asked
Constructs(g, max_degree) ==
  ~g.calculator.built \/ g.calculator.max_degree # max_degree
GlobalCalculator(g, max_degree) ==
  IF Constructs(g, max_degree)
  THEN FortranGeoidHeight(g.file, max_degree)
  ELSE InitReturns(g.calculator)
ModuleGeoidHeight(built, latitude, longitude) ==
  IF built.kind # "ok" THEN GeoidRaise(built.kind, built.msg)
  ELSE FortranGeoidHeight_geoidheight(built.calculator, latitude, longitude)

\* the outcome of the loop body of makerunway_kml for one row: the
\* all_kargs it hands to icao_kml, or the exception that leaves it
RowReturns(all_kargs) == [kind |-> "ok", msg |-> "", all_kargs |-> all_kargs]
RowRaise(class, message) ==
  [kind |-> class, msg |-> message, all_kargs |-> << >>]

\* TP_Alt of a row: lines 102 to 107
TrafficPatternAlt(hi_elev_ft, lo_elev_ft, TP_Alt_base) ==
  IF hi_elev_ft > lo_elev_ft
  THEN CeilTo(hi_elev_ft + TP_Alt_base, 100 * 100)
  ELSE IF lo_elev_ft > hi_elev_ft
  THEN CeilTo(lo_elev_ft + TP_Alt_base, 100 * 100)
  ELSE TP_Alt_base

\* manual_kwargs and setup_kwargs of a row up to the first solver call
RowKwargs(row, p) ==
  [uuid |-> "UUID", icao |-> p.icao, rwy_w |-> p.RWY_W,
   hi_ident |-> row.hi_ident, hi_wgs_lat |-> row.hi_wgs_lat,
   hi_wgs_long |-> row.hi_wgs_long, hi_elev_ft |-> row.hi_elev,
   hi_disp_thld_ft |-> row.hi_disp_thld,
   lo_ident |-> row.lo_ident, lo_wgs_lat |-> row.lo_wgs_lat,
   lo_wgs_long |-> row.lo_wgs_long, lo_elev_ft |-> row.lo_elev,
   lo_disp_thld_ft |-> row.lo_disp_thld,
   G_Slope |-> p.G_Slope, TD_dist_ft |-> p.TD_dist_ft,
   STP_dist_ft |-> p.STP_dist_ft,
   TP_Alt |-> TrafficPatternAlt(row.hi_elev, row.lo_elev, p.TP_Alt),
   Go_Around_Spd |-> p.GA_Spd, Dep_dist_nm |-> p.Dep_dist_nm,
   Min_App_Angle |-> p.G_Slope - 500000,
   mag_var |-> row.var,
   rw_brg_deg |-> 0, rev_rw_brg_deg |-> 0, rwy_hdg_tru |-> 0,
   rwy_hdg_mag |-> 0, rw_brg_rad |-> 0, rev_rw_brg_rad |-> 0,
   rw_dist_ft |-> 0,
   STP_points |-> << >>, DEP_points |-> << >>, TD_points |-> << >>,
   APP_points |-> << >>,
   stpt_lat |-> 0, stpt_long |-> 0,
   hi_disp_thld_lat |-> row.hi_wgs_lat,
   hi_disp_thld_long |-> row.hi_wgs_long,
   total_distance_m |-> 0, total_distance_ft |-> 0, rwy_slope_deg |-> 0,
   GSV_alt |-> 0, intermediate_points |-> << >>, runway_remaining |-> 0]

\* lines 263 to 266: the runway remaining and all_kargs
RowFinish(m) ==
  RowReturns([m EXCEPT !.runway_remaining =
                         m.total_distance_ft - m.TD_dist_ft
                           - m.STP_dist_ft])

\* the two loops over the rows of the profile: the geoid height in whole
\* feet, the distance in whole feet and the altitude over the geoid, which
\* goes to column 'ptEGM96akt' without and 'ptEGM96alt' with a displaced
\* threshold
ProfileColumns(r, emg96ft) ==
  [point_number |-> r.point_number, point_type |-> r.point_type,
   latitude |-> r.latitude, longitude |-> r.longitude,
   elevation_m |-> r.elevation_m,
   distance_from_start_m |-> r.distance_from_start_m,
   emg96ft |-> emg96ft,
   distance_from_start_ft |->
     RoundTo(m2f((r.distance_from_start_m + Fine \div 2) \div Fine), 100),
   ptEGM96 |-> m2f((r.elevation_m + Fine \div 2) \div Fine) - emg96ft]
RowTable(df, heights, displaced) ==
  [altitude_column |-> IF displaced THEN "ptEGM96alt" ELSE "ptEGM96akt",
   rows |-> [k \in DOMAIN df |->
               ProfileColumns(df[k], CeilTo(m2f(heights[k].value), 100))]]
FirstRaise(heights) ==
  CHOOSE k \in DOMAIN heights :
    /\ heights[k].kind # "ok"
    /\ \A j \in 1..(k - 1) : heights[j].kind = "ok"
\* the loop body, had line 258 read the geoid height of the threshold entry
\* tt80df.iloc[0] where line 215 reads tt80df.iloc[6]
RowAfterGeoidAtThreshold(m, profile, heights, displaced) ==
  IF \E k \in DOMAIN heights : heights[k].kind # "ok"
  THEN RowRaise(heights[FirstRaise(heights)].kind,
                heights[FirstRaise(heights)].msg)
  ELSE RowFinish(
         [m EXCEPT !.total_distance_m = profile.total_distance,
                   !.total_distance_ft = m2f(profile.total_distance),
                   !.rwy_slope_deg = Degrees(profile.elevation_slope),
                   !.GSV_alt = CeilTo(m2f(heights[IF displaced THEN 1
                                                  ELSE 7].value), 100),
                   !.intermediate_points =
                     RowTable(profile.df, heights, displaced)])
RowAfterGeoid(m, profile, heights, displaced) ==
  IF \E k \in DOMAIN heights : heights[k].kind # "ok"
  THEN RowRaise(heights[FirstRaise(heights)].kind,
                heights[FirstRaise(heights)].msg)
  ELSE RowFinish(
         [m EXCEPT !.total_distance_m = profile.total_distance,
                   !.total_distance_ft = m2f(profile.total_distance),
                   !.rwy_slope_deg = Degrees(profile.elevation_slope),
                   !.GSV_alt = CeilTo(m2f(heights[7].value), 100),
                   !.intermediate_points =
                     RowTable(profile.df, heights, displaced)])
RowAfterProfile(m, table, profile, displaced) ==
  IF profile.kind # "ok" THEN RowRaise(profile.kind, profile.msg)
  ELSE CHOOSE r \in
         { RowAfterGeoid(m, profile, heights, displaced) :
             heights \in
               { [k \in DOMAIN profile.df |->
                    geoidheight(profile.df[k].latitude,
                                profile.df[k].longitude, table)] } } : TRUE

\* the four points, had lines 165 and 175 read the low end of the row and
\* not the locals lo_wgs_lat and lo_wgs_long that lines 151 and 154 assign
RowRequestsFromRow(m, row, p) ==
  << [lat |-> row.lo_wgs_lat, lon |-> row.lo_wgs_long, elev |-> m.lo_elev_ft,
      bearing |-> m.rev_rw_brg_deg, dist |-> f2m(p.STP_dist_ft)],
     [lat |-> row.lo_wgs_lat, lon |-> row.lo_wgs_long, elev |-> m.lo_elev_ft,
      bearing |-> m.rw_brg_deg,
      dist |-> f2m(nm2f(p.Dep_dist_nm))],
     [lat |-> m.stpt_lat, lon |-> m.stpt_long, elev |-> m.hi_elev_ft,
      bearing |-> m.rw_brg_deg, dist |-> f2m(p.TD_dist_ft)],
     [lat |-> m.stpt_lat, lon |-> m.stpt_long, elev |-> m.hi_elev_ft,
      bearing |-> m.rev_rw_brg_deg,
      dist |-> IF Sin(Radians(p.G_Slope)) = 0 THEN 0
               ELSE f2m(MulDiv(p.TP_Alt, Cos(Radians(p.G_Slope)),
                               Sin(Radians(p.G_Slope))))] >>
\* the four points of a row the direct solver gives, in the order of the
\* code: stop and departure point from the low end, touchdown and
\* approach point from the start point.  The departure distance of the
\* code is TP_Alt_base / tan(atan(TP_Alt_base / distance_ft)), which is
\* distance_ft = nm2f(Dep_dist_nm) for the positive altitudes and
\* distances the rows carry; the approach distance is
\* TP_Alt_base / tan(radians(G_Slope)).
RowRequests(m, row, p) ==
  << [lat |-> m.lo_wgs_lat, lon |-> m.lo_wgs_long, elev |-> m.lo_elev_ft,
      bearing |-> m.rev_rw_brg_deg, dist |-> f2m(p.STP_dist_ft)],
     [lat |-> m.lo_wgs_lat, lon |-> m.lo_wgs_long, elev |-> m.lo_elev_ft,
      bearing |-> m.rw_brg_deg,
      dist |-> f2m(nm2f(p.Dep_dist_nm))],
     [lat |-> m.stpt_lat, lon |-> m.stpt_long, elev |-> m.hi_elev_ft,
      bearing |-> m.rw_brg_deg, dist |-> f2m(p.TD_dist_ft)],
     [lat |-> m.stpt_lat, lon |-> m.stpt_long, elev |-> m.hi_elev_ft,
      bearing |-> m.rev_rw_brg_deg,
      dist |-> IF Sin(Radians(p.G_Slope)) = 0 THEN 0
               ELSE f2m(MulDiv(p.TP_Alt, Cos(Radians(p.G_Slope)),
                               Sin(Radians(p.G_Slope))))] >>
RowSolve(requests) ==
  [k \in DOMAIN requests |->
     generate_wgs84_coordinate(requests[k].lat, requests[k].lon,
                               requests[k].elev, requests[k].bearing,
                               requests[k].dist, "great_circle")]
\* float(TP_Alt_base) / distance_ft and float(TP_Alt_base) / math.tan(...)
\* divide by zero for no departure distance, no traffic pattern altitude
\* or no glide slope
RowAfterPoints(m, row, p, table, points, displaced) ==
  IF points[1].kind # "ok" THEN RowRaise(points[1].kind, points[1].msg)
  ELSE IF nm2f(p.Dep_dist_nm) = 0 \/ p.TP_Alt = 0
  THEN RowRaise("ZeroDivisionError", "float division by zero")
  ELSE IF points[2].kind # "ok"
  THEN RowRaise(points[2].kind, points[2].msg)
  ELSE IF points[3].kind # "ok"
  THEN RowRaise(points[3].kind, points[3].msg)
  ELSE IF Sin(Radians(p.G_Slope)) = 0
  THEN RowRaise("ZeroDivisionError", "float division by zero")
  ELSE IF points[4].kind # "ok"
  THEN RowRaise(points[4].kind, points[4].msg)
  ELSE CHOOSE r \in
         { RowAfterProfile(w, table, profile, displaced) :
             w \in { [m EXCEPT !.STP_points = points[1],
                               !.DEP_points = points[2],
                               !.TD_points = points[3],
                               !.APP_points = points[4]] },
             profile \in
               { generate_equidistant_points(
                   m.stpt_lat, m.stpt_long,
                   <<MulDiv(IF displaced THEN row.hi_disp_thld_elev
                            ELSE m.hi_elev_ft, 3408, 10000), 0>>,
                   m.lo_wgs_lat, m.lo_wgs_long,
                   <<MulDiv(row.lo_elev, 3408, 10000), 0>>, 15) } } : TRUE
RowWithStart(m, row, p, table, displaced) ==
  CHOOSE r \in
    { RowAfterPoints(m, row, p, table, points, displaced) :
        points \in { RowSolve(RowRequests(m, row, p)) } } : TRUE
\* the start point of the usable runway: the high end, or with a displaced
\* threshold the point calculate_destination_point gives
RowAfterLength(m, row, p, table, values, stpt, displaced) ==
  IF values.kind # "ok" THEN RowRaise(values.kind, values.msg)
  ELSE CHOOSE r \in
         { RowWithStart(w, row, p, table, displaced) :
             w \in { [m EXCEPT !.rw_dist_ft = m2f(values.dist),
                               !.stpt_lat = stpt[1], !.stpt_long = stpt[2],
                               !.hi_disp_thld_ft =
                                 IF displaced THEN row.hi_disp_thld
                                 ELSE 0] } } : TRUE
RowStartPoint(m, row) ==
  IF IsNaN(row.hi_disp_thld) THEN <<m.hi_wgs_lat, m.hi_wgs_long>>
  ELSE calculate_destination_point(m.hi_wgs_lat, m.hi_wgs_long,
                                   m.rw_brg_rad, f2m(row.hi_disp_thld))
\* lines 146 to 162: the low end moved by hi_redux, and the runway length
RowAfterRedux(m, row, p, table, mod_endpts) ==
  IF mod_endpts.kind # "ok" THEN RowRaise(mod_endpts.kind, mod_endpts.msg)
  ELSE CHOOSE r \in
         { RowAfterLength(w, row, p, table, values, stpt,
                          ~IsNaN(row.hi_disp_thld)) :
             w \in { [m EXCEPT !.lo_wgs_lat = mod_endpts.lat,
                               !.lo_wgs_long = mod_endpts.lon] },
             values \in
               { distance("TT80Calculator", m.hi_wgs_lat, m.hi_wgs_long,
                          mod_endpts.lat, mod_endpts.lon, "WGS84",
                          "great_circle", FALSE) },
             stpt \in { RowStartPoint(m, row) } } : TRUE
\* row['hi_redux'] != 0: a str differs from 0 whatever its text
ReduxNotZero(row) == row.hi_redux_text \/ row.hi_redux # 0
RowWithBearing(m, row, p, table) ==
  CHOOSE r \in
    { RowAfterRedux(m, row, p, table, mod_endpts) :
        mod_endpts \in
          { IF ReduxNotZero(row)
            THEN generate_wgs84_coordinate(
                   row.lo_wgs_lat, row.lo_wgs_long, m.lo_elev_ft,
                   m.rev_rw_brg_deg, f2m(row.hi_redux), "great_circle")
            ELSE Point(row.lo_wgs_lat, row.lo_wgs_long, m.lo_elev_ft) } } :
      TRUE
\* lines 125 to 142: the runway bearing and what follows from it
RowAfterBearing(m, row, p, table, inverse) ==
  IF inverse.kind # "ok" THEN RowRaise(inverse.kind, inverse.msg)
  ELSE CHOOSE r \in
         { RowWithBearing(w, row, p, table) :
             w \in
               { [m EXCEPT
                    !.rw_brg_deg = inverse.az,
                    !.rev_rw_brg_deg = (inverse.az - 180 * Micro)
                                         % (360 * Micro),
                    !.rwy_hdg_tru = inverse.az % (360 * Micro),
                    !.rwy_hdg_mag = (inverse.az - row.var) % (360 * Micro),
                    !.rw_brg_rad = Radians(inverse.az) % (2 * Pi),
                    !.rev_rw_brg_rad =
                      (Radians(inverse.az) % (2 * Pi)) - Pi] } } : TRUE
\* the loop body of makerunway_kml for one row
ProcessRow(row, p, table) ==
  CHOOSE r \in
    { RowAfterBearing(m, row, p, table, inverse) :
        m \in { RowKwargs(row, p) },
        inverse \in
          { distance("TT80Calculator", row.hi_wgs_lat, row.hi_wgs_long,
                     row.lo_wgs_lat, row.lo_wgs_long, "WGS84",
                     "great_circle", FALSE) } } : TRUE

\* ------------------------------------------------------------------------
\* State
\* ------------------------------------------------------------------------
VARIABLES
  pc,      \* where the running call stands: "call", "loop", "done"
  call,    \* the arguments of the running call
  loc,     \* the locals of the great-circle loop
  passes,  \* how often the running call has entered its loop body
  ret,     \* what the call returned or raised
  prev,    \* what the call before it returned
  batch,   \* makerunway_kml: the records, the position, the output
  geoid    \* geoidheight_fortran: the coefficient file and _global_calculator

vars == <<pc, call, loc, passes, ret, prev, batch, geoid>>

NoResult == [kind |-> "none", msg |-> "", az |-> 0, dist |-> 0]
NoLocals == GCStart(0, 0, 0, 0, 0)
NoBatch == [rows |-> <<>>, at |-> 0]
NoGeoid ==
  [file |-> << >>, calculator |-> << >>, seen |-> EmptyBag, loads |-> 0]

\* ------------------------------------------------------------------------
\* Calls of distance(), the great-circle loop one pass at a time
\* ------------------------------------------------------------------------
Deg == Micro

\* point pairs <<lat1, lon1, lat2, lon2>> for the great-circle method: none
\* with an end exactly at a pole, where the doubles tell cos(pi/2) = 6e-17
\* from 0 and fixed point cannot, and none closer than a few kilometres
GreatCirclePairs ==
  { <<0, 0, 10 * Deg, -500>>,
    <<10 * Deg, 20 * Deg, 30 * Deg, 50 * Deg>>,
    <<36073658, -115125825, 36073628, -115161433>>,
    <<-45 * Deg, -10 * Deg, 60 * Deg, 100 * Deg>>,
    <<89 * Deg, 0, 89 * Deg, 90 * Deg>>,
    <<0, 0, 0, 179 * Deg>>,
    <<0, 0, 0, 179500000>>,
    <<0, 0, 0, 180 * Deg>>,
    <<0, 90 * Deg, 0, -90 * Deg>>,
    <<30 * Deg, 0, -30 * Deg, 180 * Deg>> }
\* point pairs for the rhumb-line method, poles among them
RhumbPairs ==
  { <<0, 0, 10 * Deg, -500>>,
    <<10 * Deg, 20 * Deg, 30 * Deg, 50 * Deg>>,
    <<36073658, -115125825, 36073628, -115161433>>,
    <<-45 * Deg, -10 * Deg, 60 * Deg, 100 * Deg>>,
    <<0, 170 * Deg, 0, -170 * Deg>>,
    <<60 * Deg, 0, 60 * Deg, 90 * Deg>>,
    <<90 * Deg, 0, 90 * Deg, 10 * Deg>>,
    <<90 * Deg, 0, 0, 10 * Deg>>,
    <<0, 10 * Deg, -90 * Deg, 0>> }
\* points P for the calls distance(P, P)
CoincidentPoints ==
  { <<0, 0>>, <<90 * Deg, 0>>, <<-90 * Deg, 50 * Deg>>, <<0, 180 * Deg>>,
    <<36073658, -115125825>>, <<45 * Deg, -180 * Deg>> }
SamePairs == { <<p[1], p[2], p[1], p[2]>> : p \in CoincidentPoints }

DistanceModules == {"simple_distance", "TT80Calculator"}
DistanceCall(m, p, e, meth, ba) ==
  [fn |-> m, lat1 |-> p[1], lon1 |-> p[2], lat2 |-> p[3], lon2 |-> p[4],
   ellipsoid |-> e, method |-> meth, back_az |-> ba]
\* calls that distance() refuses
RefusedCalls ==
  { DistanceCall("simple_distance", <<91 * Deg, 0, 0, 0>>, "WGS84",
                 "great_circle", FALSE),
    DistanceCall("simple_distance", <<0, 0, -90 * Deg - 1, 0>>, "WGS84",
                 "rhumb", FALSE),
    DistanceCall("TT80Calculator", <<0, -181 * Deg, 0, 0>>, "WGS84",
                 "great_circle", FALSE),
    DistanceCall("simple_distance", <<0, 0, 0, 180 * Deg + 1>>, "sphere",
                 "rhumb", TRUE),
    DistanceCall("simple_distance", <<0, 0, 1 * Deg, 1 * Deg>>, "Mars",
                 "great_circle", FALSE),
    DistanceCall("TT80Calculator", <<0, 0, 1 * Deg, 1 * Deg>>, "WGS84",
                 "rhumb_line", FALSE) }
DistanceCalls ==
  { DistanceCall(m, p, e, "great_circle", ba) :
      m \in DistanceModules, p \in GreatCirclePairs \cup SamePairs,
      e \in EllipsoidNames, ba \in BOOLEAN }
  \cup
  { DistanceCall(m, p, e, "rhumb", ba) :
      m \in DistanceModules, p \in RhumbPairs \cup SamePairs,
      e \in EllipsoidNames, ba \in BOOLEAN }
  \cup RefusedCalls

DistanceInit ==
  /\ pc = "call"
  /\ call \in DistanceCalls
  /\ loc = NoLocals
  /\ passes = 0
  /\ ret = NoResult
  /\ prev = NoResult
  /\ batch = NoBatch
  /\ geoid = NoGeoid

\* distance() from its entry to the great-circle loop's first test, or, by
\* the rhumb-line method and on the early returns, to its return
DistanceEnter ==
  /\ pc = "call"
  /\ call.fn \in DistanceModules
  /\ LET chk == DistanceValidate(call.lat1, call.lon1, call.lat2, call.lon2,
                                 call.ellipsoid, call.method)
     IN  IF chk.kind # "accepted"
         THEN pc' = "done" /\ ret' = chk /\ loc' = NoLocals
         ELSE IF call.method = "great_circle"
                   /\ ~Coincident(call.lat1, call.lon1, call.lat2, call.lon2)
         THEN /\ pc' = "loop"
              /\ loc' = GCStart(call.lat1, call.lon1, call.lat2, call.lon2,
                                ELLIPSOIDS[call.ellipsoid].f)
              /\ ret' = ret
         ELSE /\ pc' = "done"
              /\ loc' = NoLocals
              /\ ret' = distance(call.fn, call.lat1, call.lon1, call.lat2,
                                 call.lon2, call.ellipsoid, call.method,
                                 call.back_az)
  /\ passes' = 0
  /\ UNCHANGED <<call, prev, batch, geoid>>

\* one pass through the body of the while loop
GCIterate ==
  /\ pc = "loop"
  /\ call.fn \in DistanceModules
  /\ GCContinue(loc) /\ ~loc.returned
  /\ loc' = GCBody(loc, ELLIPSOIDS[call.ellipsoid].f)
  /\ passes' = passes + 1
  /\ UNCHANGED <<pc, call, ret, prev, batch, geoid>>

\* the loop is left, by its test or by the return in its body; the rest of
\* _great_circle_distance and the rounding of distance()
GCExit ==
  /\ pc = "loop"
  /\ call.fn \in DistanceModules
  /\ ~GCContinue(loc) \/ loc.returned
  /\ ret' = DistanceRound(call.fn,
              IF loc.returned THEN ZeroResult
              ELSE GCFinish(loc, call.lat1, call.lon1, call.lat2, call.lon2,
                            ELLIPSOIDS[call.ellipsoid].a,
                            ELLIPSOIDS[call.ellipsoid].f, call.back_az))
  /\ pc' = "done"
  /\ UNCHANGED <<call, loc, passes, prev, batch, geoid>>

\* a caller that, having the forward azimuth from P1 to P2, asks for the
\* back azimuth from P2 to P1
ReverseCall ==
  /\ pc = "done"
  /\ call.fn \in DistanceModules
  /\ prev = NoResult
  /\ ret.kind = "ok"
  /\ ~call.back_az
  /\ ~Coincident(call.lat1, call.lon1, call.lat2, call.lon2)
  /\ prev' = ret
  /\ call' = [call EXCEPT !.lat1 = call.lat2, !.lon1 = call.lon2,
                          !.lat2 = call.lat1, !.lon2 = call.lon1,
                          !.back_az = TRUE]
  /\ pc' = "call"
  /\ ret' = NoResult
  /\ loc' = NoLocals
  /\ passes' = 0
  /\ UNCHANGED <<batch, geoid>>

DistanceNext == DistanceEnter \/ GCIterate \/ GCExit \/ ReverseCall
SpecDistance == DistanceInit /\ [][DistanceNext]_vars

\* C4: the azimuth that distance() returns, after its final rounding, is a
\* number az with 0 <= az < 360, for every accepted call
C4_AzimuthBelow360 ==
  (pc = "done" /\ ret.kind = "ok") =>
    (0 <= ret.az /\ ret.az < 360 * Micro)
\* a call whose azimuth, normalised to 359.99..., is rounded up to 360.00
C4_RoundedUpTo360 ==
  /\ pc = "done" /\ ret.kind = "ok"
  /\ call.fn = "simple_distance" /\ call.method = "great_circle"
  /\ ret.az = 360 * Micro

\* C6: distance(P, P) returns exactly (0, 0) for every valid P, ellipsoid,
\* method and back_az, and never enters the iteration loop on the way
C6_CoincidentReturnsZero ==
  (/\ pc = "done"
   /\ call \notin RefusedCalls
   /\ call.lat1 = call.lat2 /\ call.lon1 = call.lon2)
  => (ret = ZeroResult /\ passes = 0)
\* distance(P, P) has returned for a pole P by the great-circle method
C6_PoleToItself ==
  /\ pc = "done"
  /\ call.lat1 = 90 * Deg /\ call.lat2 = 90 * Deg
  /\ call.lon1 = call.lon2
  /\ call.method = "great_circle" /\ call.ellipsoid = "Bessel1841"
  /\ call.back_az
  /\ ret = ZeroResult /\ passes = 0

\* C7: the forward azimuth of distance(P1, P2) and the back azimuth of
\* distance(P2, P1, back_az=True) differ by 180 degrees modulo 360, up to the
\* rounding of the two azimuths, by both methods
C7_BackAzimuthOpposite ==
  (pc = "done" /\ prev.kind = "ok" /\ ret.kind = "ok") =>
    /\ IsFinite(prev.az) /\ IsFinite(ret.az)
    /\ LET d == (ret.az - prev.az - 180 * Micro) % (360 * Micro)
       IN  d <= 2 * AzimuthStep("simple_distance")
             \/ d >= 360 * Micro - 2 * AzimuthStep("simple_distance")
\* by the great-circle method the two azimuths do differ by 180 degrees
C7_GreatCircleOpposite ==
  /\ pc = "done" /\ prev.kind = "ok" /\ ret.kind = "ok"
  /\ call.method = "great_circle"
  /\ ret.az # prev.az
  /\ (ret.az - prev.az - 180 * Micro) % (360 * Micro) = 0

\* C8: when the loop has used up its 100 passes, an antipodal pair gets the
\* half-meridian approximation (pi * a; 90 if lon2 > lon1, else 270) and
\* every other pair the convergence error; no antipodal pair gets the error
C8_ExhaustionOutcome ==
  (pc = "done" /\ call.method = "great_circle" /\ passes = 100
     /\ loc.iter_limit = 0)
  => IF call.lat1 = -call.lat2
          /\ Abs(call.lon1 - call.lon2) = 180 * Micro
     THEN /\ ret.kind = "ok"
          /\ ret.dist = MulDiv(ELLIPSOIDS[call.ellipsoid].a, Pi, Micro)
          /\ ret.az = IF call.lon2 > call.lon1 THEN 90 * Micro
                      ELSE 270 * Micro
     ELSE ret.kind = "ValueError"
\* two opposite points of the equator end in the convergence error
C8_EquatorialAntipodesFail ==
  /\ pc = "done" /\ passes = 100
  /\ call.lat1 = 0 /\ call.lat2 = 0
  /\ Abs(call.lon1 - call.lon2) = 180 * Micro
  /\ ret = Raise("ValueError", "Great circle calculation failed to converge")

\* ------------------------------------------------------------------------
\* SpecDirect: calls of generate_wgs84_coordinate, the loop of
\* _vincenty_direct pass by pass
\* ------------------------------------------------------------------------
NoDirectLocals == VDLocals(0, 0, 0)

\* starting points, bearings (1e-6 degree), distances (0.01 m) and
\* elevations of the calls
DirectPoints ==
  { <<0, 180 * Deg>>, <<0, -180 * Deg>>, <<0, 0>>,
    <<36073658, -115125825>>, <<60 * Deg, 170 * Deg>>,
    <<-45 * Deg, -10 * Deg>>, <<45 * Deg, 180 * Deg>>, <<89 * Deg, 0>> }
DirectBearings ==
  { 0, 45 * Deg, 90 * Deg, 180 * Deg, 269950000, 270 * Deg, 360 * Deg }
DirectDistances == { 0, 91440, 100000, 5000000, 120000000 }
DirectElevations == { -300, 0, 152400, 2000000000 }
DirectCall(p, elevation, bearing, distance_m, method) ==
  [fn |-> "generate_wgs84_coordinate", latitude |-> p[1],
   longitude |-> p[2], elevation |-> elevation, bearing |-> bearing,
   distance |-> distance_m, method |-> method]
\* calls the validation refuses
RefusedDirectCalls ==
  { DirectCall(<<91 * Deg, 0>>, 0, 0, 100000, "great_circle"),
    DirectCall(<<0, 180 * Deg + 1>>, 0, 0, 100000, "great_circle"),
    DirectCall(<<0, 0>>, 0, -1, 100000, "rhumb_line"),
    DirectCall(<<0, 0>>, 0, 360 * Deg + 1, 100000, "rhumb_line"),
    DirectCall(<<0, 0>>, 0, 90 * Deg, -1, "great_circle"),
    DirectCall(<<0, 0>>, 0, 90 * Deg, 100000, "rhumb") }
\* the rhumb line is not taken within 0.05 degree of a parallel, where it
\* multiplies a change of latitude below the resolution by a large tangent
RhumbBearings == (DirectBearings \ {269950000}) \cup {225 * Deg}
DirectCalls ==
  { DirectCall(p, h, b, d, "great_circle") :
      p \in DirectPoints, h \in DirectElevations, b \in DirectBearings,
      d \in DirectDistances }
    \cup { DirectCall(p, h, b, d, "rhumb_line") :
              p \in DirectPoints, h \in DirectElevations,
              b \in RhumbBearings, d \in DirectDistances }
    \cup RefusedDirectCalls

DirectInit ==
  /\ pc = "call"
  /\ call \in DirectCalls
  /\ loc = NoDirectLocals
  /\ passes = 0
  /\ ret = NoResult
  /\ prev = NoResult
  /\ batch = NoBatch
  /\ geoid = NoGeoid

\* the return of generate_wgs84_coordinate from the radians its solver gave
DirectReturn(new_rad) ==
  /\ loc' = [loc EXCEPT !.new_longitude = FDegreesLon(new_rad[2])]
  /\ ret' = DirectResult(new_rad, call.elevation)
  /\ pc' = "done"

\* generate_wgs84_coordinate up to the loop of _vincenty_direct, or to its
\* return when the call is refused or the method is rhumb_line
DirectEnter ==
  /\ pc = "call"
  /\ call.fn = "generate_wgs84_coordinate"
  /\ IF DirectValidate(call.latitude, call.longitude, call.bearing,
                       call.distance, call.method).kind # "accepted"
     THEN /\ ret' = DirectValidate(call.latitude, call.longitude,
                                   call.bearing, call.distance, call.method)
          /\ pc' = "done"
          /\ loc' = loc
     ELSE IF call.method = "rhumb_line"
     THEN DirectReturn(rhumb_line_direct(
            Radians(call.latitude), Radians(call.longitude),
            Radians(call.bearing), call.distance, WGS84_A, WGS84_E2))
     ELSE /\ loc' = VDStart(Radians(call.latitude), Radians(call.longitude),
                            Radians(call.bearing), call.distance,
                            WGS84_A, WGS84_F)
          /\ pc' = "loop"
          /\ ret' = ret
  /\ UNCHANGED <<call, passes, prev, batch, geoid>>

\* the passes of a loop are counted up to MaxPasses, one above the budget
\* of the inverse solver; a loop that goes on is followed further, its
\* passes no longer counted
MaxPasses == 101
\* one pass of the loop of _vincenty_direct
VDIterate ==
  /\ pc = "loop"
  /\ call.fn = "generate_wgs84_coordinate"
  /\ VDContinue(loc)
  /\ loc' = VDBody(loc)
  /\ passes' = IF passes < MaxPasses THEN passes + 1 ELSE passes
  /\ UNCHANGED <<pc, call, ret, prev, batch, geoid>>

\* the loop test fails: the rest of _vincenty_direct and of its caller
VDExit ==
  /\ pc = "loop"
  /\ call.fn = "generate_wgs84_coordinate"
  /\ ~VDContinue(loc)
  /\ DirectReturn(VDFinish(loc, WGS84_F))
  /\ UNCHANGED <<call, passes, prev, batch, geoid>>

DirectNext == DirectEnter \/ VDIterate \/ VDExit
SpecDirect == DirectInit /\ [][DirectNext]_vars

\* C9: the longitude generate_wgs84_coordinate returns lies in
\* (-180, 180]: it is a number, it is never -180, and a destination on the
\* antimeridian is reported as +180
C9_LongitudeHalfOpen ==
  (pc = "done" /\ call.fn = "generate_wgs84_coordinate" /\ ret.kind = "ok")
    => /\ IsFinite(ret.lon)
       /\ -180 * Deg < ret.lon
       /\ ret.lon <= 180 * Deg
\* a destination 1 km or more from its start and on the antimeridian has
\* been returned, as -180
C9_AntimeridianAsMinus180 ==
  /\ pc = "done"
  /\ call.fn = "generate_wgs84_coordinate"
  /\ ret.kind = "ok"
  /\ call.distance >= 100000
  /\ IsFinite(loc.new_longitude)
  /\ (loc.new_longitude - 180 * Deg) % (360 * Deg) = 0
  /\ ret.lon = -180 * Deg

\* C10: generate_wgs84_coordinate returns the elevation it was given,
\* whatever the method, the distance and the elevation
C10_ElevationUnchanged ==
  (pc = "done" /\ call.fn = "generate_wgs84_coordinate" /\ ret.kind = "ok")
    => ret.elev = call.elevation
\* a call with an elevation far beyond any terrain has moved 1200 km and
\* returned that elevation
C10_ElevationKept ==
  /\ pc = "done"
  /\ call.fn = "generate_wgs84_coordinate"
  /\ ret.kind = "ok"
  /\ call.elevation = 2000000000
  /\ call.distance = 120000000
  /\ ret.lat # call.latitude
  /\ ret.elev = call.elevation

\* ------------------------------------------------------------------------
\* SpecProfile: calls of generate_equidistant_points, its loop pass by
\* pass
\* ------------------------------------------------------------------------
\* the largest num_points of the calls; the runway profiles take 15
MaxNumPoints == 16

\* pairs of points <<lat1, lon1, lat2, lon2>> a runway length apart, one
\* of them across the antimeridian
ProfilePairs ==
  { <<36073658, -115125825, 36073628, -115161433>>,
    <<10 * Deg, 20 * Deg, 10020000, 20010000>>,
    <<10 * Deg, 20 * Deg, 10 * Deg, 20010000>>,
    <<-33950000, 151170000, -33970000, 151190000>>,
    <<60 * Deg, 179990000, 60 * Deg, -179990000>> }
\* pairs the inverse solver fails on
ProfileFailingPairs == { <<0, 0, 0, 180 * Deg>> }
\* the elevations <<elev1, elev2>> of the two points, in 0.01 m, and what
\* each has below 1e-5 m, in 1e-8 m: 600.000004 m and 610.000006 m last
ProfileElevations ==
  { <<60000, 61000, 0, 0>>, <<10000, 10000, 0, 0>>, <<5000, -200, 0, 0>>,
    <<60000, 61000, 400, 600>> }
ProfileCall(p, h, num_points) ==
  [fn |-> "generate_equidistant_points", lat1 |-> p[1], lon1 |-> p[2],
   elev1 |-> h[1], lat2 |-> p[3], lon2 |-> p[4], elev2 |-> h[2],
   below1 |-> h[3], below2 |-> h[4],
   num_points |-> num_points]
RefusedProfileCalls ==
  { ProfileCall(<<91 * Deg, 0, 0, 0>>, <<0, 0, 0, 0>>, 15),
    ProfileCall(<<0, 0, 0, -180 * Deg - 1>>, <<0, 0, 0, 0>>, 15),
    ProfileCall(<<0, 0, 0, 10000>>, <<900001, 0, 0, 0>>, 15),
    ProfileCall(<<0, 0, 0, 10000>>, <<0, -1100001, 0, 0>>, 15) }
ProfileCalls ==
  { ProfileCall(p, h, n) :
      p \in ProfilePairs \cup SamePairs \cup ProfileFailingPairs,
      h \in ProfileElevations, n \in 0..MaxNumPoints }
    \cup RefusedProfileCalls

\* the two elevations of a call of generate_equidistant_points
Elev1(c) == <<c.elev1, c.below1>>
Elev2(c) == <<c.elev2, c.below2>>

NoProfileLocals == ProfileLocals(0, 0, <<0, 0>>, 0, 0, 0)

ProfileInit ==
  /\ pc = "call"
  /\ call \in ProfileCalls
  /\ loc = NoProfileLocals
  /\ passes = 0
  /\ ret = NoResult
  /\ prev = NoResult
  /\ batch = NoBatch
  /\ geoid = NoGeoid

\* generate_equidistant_points from the result of its call of distance on
ProfileAfterDistance(inverse) ==
  IF inverse.kind # "ok"
  THEN /\ ret' = ProfileRaise(inverse.kind, inverse.msg)
       /\ pc' = "done"
       /\ loc' = loc
  ELSE IF ~ProfileDivides(call.num_points)
  THEN /\ ret' = ProfileRaise("ZeroDivisionError", "float division by zero")
       /\ pc' = "done"
       /\ loc' = loc
  ELSE /\ loc' = ProfileStart(call.lat1, call.lon1, Elev1(call), call.lat2,
                              call.lon2, Elev2(call), call.num_points,
                              inverse.dist)
       /\ pc' = "loop"
       /\ ret' = ret

\* generate_equidistant_points up to its loop, or to the error it raises
ProfileEnter ==
  /\ pc = "call"
  /\ call.fn = "generate_equidistant_points"
  /\ IF validate_coordinates(call.lat1, call.lon1,
                             ElevationCompared(Elev1(call)),
                             "Start point").kind # "accepted"
     THEN /\ ret' = ProfileRaise(
                      "ValueError",
                      validate_coordinates(call.lat1, call.lon1,
                                           ElevationCompared(Elev1(call)),
                                           "Start point").msg)
          /\ pc' = "done"
          /\ loc' = loc
     ELSE IF validate_coordinates(call.lat2, call.lon2,
                                  ElevationCompared(Elev2(call)),
                                  "End point").kind # "accepted"
     THEN /\ ret' = ProfileRaise(
                      "ValueError",
                      validate_coordinates(call.lat2, call.lon2,
                                           ElevationCompared(Elev2(call)),
                                           "End point").msg)
          /\ pc' = "done"
          /\ loc' = loc
     ELSE ProfileAfterDistance(
            distance("TT80Calculator", call.lat1, call.lon1, call.lat2,
                     call.lon2, "WGS84", "great_circle", FALSE))
  /\ UNCHANGED <<call, passes, prev, batch, geoid>>

\* one pass of the loop: the next interior point
ProfilePoint ==
  /\ pc = "loop"
  /\ call.fn = "generate_equidistant_points"
  /\ ProfileContinue(loc, call.num_points)
  /\ loc' = ProfileBody(loc, call.lat1, call.lon1, Elev1(call),
                        call.num_points)
  /\ passes' = passes + 1
  /\ UNCHANGED <<pc, call, ret, prev, batch, geoid>>

\* the loop is over: the end point, the data frame and the return
ProfileExit ==
  /\ pc = "loop"
  /\ call.fn = "generate_equidistant_points"
  /\ ~ProfileContinue(loc, call.num_points)
  /\ ret' = ProfileFinish(loc, call.lat2, call.lon2, Elev2(call),
                          call.num_points)
  /\ pc' = "done"
  /\ UNCHANGED <<call, loc, passes, prev, batch, geoid>>

ProfileNext == ProfileEnter \/ ProfilePoint \/ ProfileExit
SpecProfile == ProfileInit /\ [][ProfileNext]_vars

\* the profile of a call that has returned one
ProfileDone ==
  pc = "done" /\ call.fn = "generate_equidistant_points" /\ ret.kind = "ok"

\* C2: the profile has exactly num_points + 2 entries: the start point
\* first, the interior points 1..num_points in order, the end point last
C2_ProfileLength ==
  ProfileDone
    => /\ Len(ret.df) = call.num_points + 2
       /\ \A k \in 1..Len(ret.df) : ret.df[k].point_number = k - 1
       /\ ret.df[1].point_type = <<"Rwy_Start">>
       /\ ret.df[1].latitude = call.lat1
       /\ ret.df[1].longitude = call.lon1
       /\ \A k \in 2..(call.num_points + 1) :
            ret.df[k].point_type = <<"TT80_pt_", k - 1>>
       /\ ret.df[call.num_points + 2].point_type = <<"Rwy_End">>
       /\ ret.df[call.num_points + 2].latitude = call.lat2
       /\ ret.df[call.num_points + 2].longitude = call.lon2
\* a profile of the 15 interior points of a runway has been returned, every
\* one of them by a pass of the loop
C2_RunwayProfile ==
  /\ ProfileDone
  /\ call.num_points = 15
  /\ passes = 15
  /\ Len(ret.df) = 17
  /\ ret.total_distance > 0

\* C3: the distances from the start are strictly increasing along the
\* profile, whatever the points, coincident ones included
C3_StrictlyIncreasing ==
  ProfileDone
    => \A k \in 1..(Len(ret.df) - 1) :
         ret.df[k].distance_from_start_m < ret.df[k + 1].distance_from_start_m
\* C3 as the code has it: the distances from the start never decrease;
\* they are strictly increasing when the step total_distance /
\* (num_points + 1) is at least 2e-5 m, and all 0 when the inverse
\* distance is 0.00, as it is for coincident points
C3_NonDecreasing ==
  ProfileDone
    => /\ \A k \in 1..(Len(ret.df) - 1) :
            ret.df[k].distance_from_start_m
              <= ret.df[k + 1].distance_from_start_m
       /\ ret.total_distance * Fine >= 2 * (call.num_points + 1)
            => \A k \in 1..(Len(ret.df) - 1) :
                 ret.df[k].distance_from_start_m
                   < ret.df[k + 1].distance_from_start_m
       /\ ret.total_distance = 0
            => \A k \in 1..Len(ret.df) : ret.df[k].distance_from_start_m = 0
\* a profile of 15 interior points between two distinct points has been
\* returned, its distances increasing up to the inverse distance
C3_RunwayDistances ==
  /\ ProfileDone
  /\ call.num_points = 15
  /\ ret.total_distance > 0
  /\ ret.df[1].distance_from_start_m = 0
  /\ ret.df[2].distance_from_start_m > 0
  /\ ret.df[16].distance_from_start_m < ret.df[17].distance_from_start_m
  /\ ret.df[17].distance_from_start_m = ret.total_distance * Fine

\* ------------------------------------------------------------------------
\* SpecBatch: save_output_files of MAIN.py calls makerunway_kml on a batch
\* of runway records, row by row
\* ------------------------------------------------------------------------
\* the largest number of rows of a batch
MaxRecords == 3

\* rows of df2proc: coordinates in 1e-6 degree, elevations, thresholds and
\* hi_redux in 0.01 ft; hi_disp_thld is NaN without a displaced threshold
RunwayRow(hi_ident, lo_ident, hi, lo, thld, hi_redux) ==
  [hi_ident |-> hi_ident, lo_ident |-> lo_ident,
   hi_wgs_lat |-> hi[1], hi_wgs_long |-> hi[2], hi_elev |-> hi[3],
   lo_wgs_lat |-> lo[1], lo_wgs_long |-> lo[2], lo_elev |-> lo[3],
   hi_disp_thld |-> thld[1], hi_disp_thld_elev |-> thld[2],
   lo_disp_thld |-> NaN, var |-> 11500000, hi_redux |-> hi_redux,
   hi_redux_text |-> FALSE]
\* a row whose hi_redux handle_rwymodtable has written back from the
\* runway-modification table: the text of the cell, a str
RunwayEdited(row) == [row EXCEPT !.hi_redux_text = TRUE]
Runway08 ==
  RunwayRow("08", "26", <<36073658, -115125825, 200000>>,
            <<36073628, -115161433, 205000>>, <<NaN, NaN>>, 0)
Runway26 ==
  RunwayRow("26", "08", <<36073628, -115161433, 205000>>,
            <<36073658, -115125825, 200000>>, <<50000, 204000>>, 30000)
Runway17 ==
  RunwayRow("17", "35", <<10 * Deg, 20 * Deg, 10000>>,
            <<10 * Deg, 20010000, 10000>>, <<NaN, NaN>>, 0)
\* a row whose latitude the inverse solver refuses
RunwayBad ==
  RunwayRow("09", "27", <<91 * Deg, 20 * Deg, 10000>>,
            <<10 * Deg, 20010000, 10000>>, <<NaN, NaN>>, 0)
\* a runway that ends on the antimeridian, its reduction left at the "0"
\* of the table
Runway10 ==
  RunwayEdited(RunwayRow("10", "28", <<60 * Deg, 179990000, 6000>>,
                         <<60 * Deg, 180 * Deg, 5000>>, <<NaN, NaN>>, 0))
RunwayRows == { Runway08, Runway26, Runway17, RunwayBad, Runway10 }

\* the parameters of the dialog: distances and altitude in 0.01 ft, the
\* glide slope in 1e-6 degree, the departure distance in 0.01 nm
Parameters(TD_dist_ft, STP_dist_ft) ==
  [icao |-> "KLAS", TD_dist_ft |-> TD_dist_ft, STP_dist_ft |-> STP_dist_ft,
   G_Slope |-> 3 * Deg, TP_Alt |-> 150000, RWY_W |-> 150, GA_Spd |-> 140,
   Dep_dist_nm |-> 500]
ParameterSets == { Parameters(100000, 100000), Parameters(150000, 250000) }

\* the coefficient file of the geoid model
\* undulation: the geoid height on the meridian lon0, in 0.01 m; tilt: its
\* rise per 0.001 degree of longitude east of lon0, in 0.01 m
TableFound == [found |-> TRUE, undulation |-> -2850, tilt |-> 0, lon0 |-> 0]
TableMissing == [found |-> FALSE, undulation |-> 0, tilt |-> 0, lon0 |-> 0]
\* a geoid that rises to the east over the runway 08/26
TableSloping ==
  [found |-> TRUE, undulation |-> -2850, tilt |-> 10, lon0 |-> -115161433]

\* batches of distinct rows
Batches ==
  { s \in UNION { [1..n -> RunwayRows] : n \in 1..MaxRecords } :
      \A j, k \in DOMAIN s : j # k => s[j] # s[k] }
BatchCall(df2proc, p, table) ==
  [fn |-> "makerunway_kml", df2proc |-> df2proc, p |-> p, table |-> table]
BatchCalls ==
  { BatchCall(s, p, TableFound) : s \in Batches, p \in ParameterSets }
    \cup { BatchCall(<<Runway08, Runway17>>, Parameters(100000, 100000),
                     TableMissing) }
    \cup { BatchCall(s, Parameters(100000, 100000), TableSloping) :
             s \in { <<Runway08>>, <<Runway26>>, <<Runway26, Runway08>> } }

\* at: the row the loop takes next; kml_output_RWY: what icao_kml was
\* given for the rows done; kml_file: the file written after the loop;
\* csv and log: the rows whose profile and log entry were written;
\* dialog: the message box save_output_files has shown; TP_Alt_base and
\* TP_Alt: the two locals of makerunway_kml that outlive a pass of the loop
StartBatch ==
  [at |-> 1, kml_output_RWY |-> << >>, kml_file |-> << >>, csv |-> << >>,
   log |-> << >>, dialog |-> "", TP_Alt_base |-> 0, TP_Alt |-> 0]

BatchInit ==
  /\ pc = "call"
  /\ call \in BatchCalls
  /\ loc = NoLocals
  /\ passes = 0
  /\ ret = NoResult
  /\ prev = NoResult
  /\ batch = StartBatch
  /\ geoid = NoGeoid

\* the end of the loop body for the outcome of a row: the csv file, the
\* log and the call of icao_kml, or the exception leaving makerunway_kml
RowDone(outcome) ==
  IF outcome.kind = "ok"
  THEN /\ batch' = [batch EXCEPT
                      !.at = @ + 1,
                      !.csv = Append(@, outcome.all_kargs.hi_ident),
                      !.log = Append(@, outcome.all_kargs.hi_ident),
                      !.kml_output_RWY = Append(@, outcome.all_kargs),
                      !.TP_Alt = outcome.all_kargs.TP_Alt]
       /\ UNCHANGED <<pc, ret>>
  ELSE /\ pc' = "raised"
       /\ ret' = outcome
       /\ batch' = batch

\* makerunway_kml up to its loop: the parameter TP_Alt and its copy
BatchEnter ==
  /\ pc = "call"
  /\ call.fn = "makerunway_kml"
  /\ pc' = "loop"
  /\ batch' = [batch EXCEPT !.TP_Alt = call.p.TP_Alt,
                            !.TP_Alt_base = call.p.TP_Alt]
  /\ UNCHANGED <<call, loc, passes, ret, prev, geoid>>

\* the altitude a pass of the loop starts from, were line 102 not there:
\* the TP_Alt the pass before it left
LoopAltitudeKept(b) == b.TP_Alt
\* line 102, TP_Alt = TP_Alt_base: the altitude a pass of the loop starts
\* from, and the parameters as the pass reads them
LoopAltitude(b) == b.TP_Alt_base
LoopParameters(p, b) == [p EXCEPT !.TP_Alt = LoopAltitude(b)]

\* the loop body, had lines 151 to 155 assigned the relocated low end to
\* the row of the table as well
RowsWithRelocation(df2proc, at, outcome) ==
  IF outcome.kind = "ok"
  THEN [df2proc EXCEPT ![at].lo_wgs_lat = outcome.all_kargs.lo_wgs_lat,
                       ![at].lo_wgs_long = outcome.all_kargs.lo_wgs_long]
  ELSE df2proc
\* df2proc after a pass of the loop: the body reads row, the copy
\* iterrows() yields, and assigns to manual_kwargs, setup_kwargs, df_kwargs,
\* tt80df and its own locals only
RowsAfterPass(df2proc, at, outcome) == df2proc

\* one pass of the loop over df2proc.iterrows()
ProcessRecord ==
  /\ pc = "loop"
  /\ call.fn = "makerunway_kml"
  /\ batch.at <= Len(call.df2proc)
  /\ RowDone(ProcessRow(call.df2proc[batch.at],
                        LoopParameters(call.p, batch), call.table))
  /\ call' = [call EXCEPT
                !.df2proc =
                  RowsAfterPass(call.df2proc, batch.at,
                                ProcessRow(call.df2proc[batch.at],
                                           LoopParameters(call.p, batch),
                                           call.table))]
  /\ passes' = passes + 1
  /\ UNCHANGED <<loc, prev, geoid>>

\* after the loop: the KML file is written and makerunway_kml returns
WriteKml ==
  /\ pc = "loop"
  /\ call.fn = "makerunway_kml"
  /\ batch.at > Len(call.df2proc)
  /\ batch' = [batch EXCEPT
                 !.kml_file = <<"PRE">> \o batch.kml_output_RWY
                                \o <<"POST">>]
  /\ pc' = "returned"
  /\ UNCHANGED <<call, loc, passes, ret, prev, geoid>>

\* save_output_files, except Exception: the message box and the return
SaveFailed ==
  /\ pc = "raised"
  /\ call.fn = "makerunway_kml"
  /\ batch' = [batch EXCEPT
                 !.dialog = "Failed to create runway files: " \o ret.msg]
  /\ pc' = "done"
  /\ UNCHANGED <<call, loc, passes, ret, prev, geoid>>

\* save_output_files after makerunway_kml has returned; makerunway_xml,
\* whose module runwayxml is not among the sources, is taken to return
SaveComplete ==
  /\ pc = "returned"
  /\ call.fn = "makerunway_kml"
  /\ pc' = "done"
  /\ UNCHANGED <<call, loc, passes, ret, prev, batch, geoid>>

BatchNext ==
  BatchEnter \/ ProcessRecord \/ WriteKml \/ SaveFailed \/ SaveComplete
SpecBatch == BatchInit /\ [][BatchNext]_vars

\* C1: when the derivation of one record raises, the batch is not aborted:
\* every row of the batch has been processed when save_output_files is
\* done, and the results of the rows that succeeded have been written
C1_BatchNotAborted ==
  (pc = "done" /\ call.fn = "makerunway_kml")
    => /\ batch.at = Len(call.df2proc) + 1
       /\ batch.kml_file # << >>
\* a batch of three rows whose second row raised is done: the result of
\* the first row was never written and the third row never processed
C1_AbortedAtSecondRow ==
  /\ pc = "done"
  /\ call.fn = "makerunway_kml"
  /\ Len(call.df2proc) = 3
  /\ ret.kind = "ValueError"
  /\ batch.at = 2
  /\ Len(batch.kml_output_RWY) = 1
  /\ batch.kml_file = << >>
  /\ batch.dialog # ""

\* C5: every distance of a processed row is non-negative: the runway
\* length, the total distance of the profile, each distance from the
\* start, and the runway remaining
C5_DistancesNonNegative ==
  call.fn = "makerunway_kml"
    => \A k \in DOMAIN batch.kml_output_RWY :
         /\ batch.kml_output_RWY[k].rw_dist_ft >= 0
         /\ batch.kml_output_RWY[k].total_distance_m >= 0
         /\ \A j \in DOMAIN batch.kml_output_RWY[k].intermediate_points.rows :
              batch.kml_output_RWY[k].intermediate_points.rows[j]
                .distance_from_start_m >= 0
         /\ batch.kml_output_RWY[k].runway_remaining >= 0
\* a row with a runway of positive length has been processed, and its
\* runway remaining is negative
C5_NegativeRunwayRemaining ==
  /\ call.fn = "makerunway_kml"
  /\ \E k \in DOMAIN batch.kml_output_RWY :
       /\ batch.kml_output_RWY[k].total_distance_ft > 0
       /\ batch.kml_output_RWY[k].TD_dist_ft > 0
       /\ batch.kml_output_RWY[k].STP_dist_ft > 0
       /\ batch.kml_output_RWY[k].runway_remaining < 0

\* ------------------------------------------------------------------------
\* SpecGeoid: calls of the module function geoidheight, one after another
\* in one interpreter, on one coefficient file
\* ------------------------------------------------------------------------
\* the number of calls a run follows
MaxCalls == 3
\* a table of degree 4 in the format of the EGM96 file: n m C S
GoodLines ==
  << <<Token("int", 2), Token("int", 0), Token("float", -484100),
       Token("float", 0)>>,
     <<Token("int", 2), Token("int", 1), Token("float", 300),
       Token("float", 1400)>>,
     <<Token("int", 2), Token("int", 2), Token("float", 2400),
       Token("float", -1400)>>,
     <<Token("int", 3), Token("int", 0), Token("float", 950),
       Token("int", 0)>>,
     <<Token("int", 3), Token("int", 1), Token("float", 2000),
       Token("float", 250)>>,
     <<Token("int", 4), Token("int", 0), Token("float", 1300),
       Token("float", 0)>>,
     <<Token("int", 4), Token("int", 4), Token("float", -190),
       Token("float", 310)>> >>
\* lines the loader passes over: a header, a line cut short, a line whose
\* degree is not an integer, a line whose coefficient is not a number
BadLines ==
  << <<Token("text", 0), Token("text", 0), Token("text", 0),
       Token("text", 0)>>,
     <<Token("int", 3), Token("int", 3), Token("float", 720)>>,
     <<Token("float", 4), Token("int", 1), Token("float", -540),
       Token("float", -470)>>,
     <<Token("int", 4), Token("int", 2), Token("text", 0),
       Token("float", 660)>> >>
FileOf(lines) == [exists |-> TRUE, lines |-> lines]
NoFile == [exists |-> FALSE, lines |-> << >>]
GoodFile == FileOf(GoodLines)
\* the table with a blank line and the lines passed over among its lines
DamagedFile ==
  FileOf(<<BadLines[1]>> \o SubSeq(GoodLines, 1, 4) \o << << >> >>
         \o SubSeq(BadLines, 2, 4) \o SubSeq(GoodLines, 5, 7))
\* a file none of whose lines gives a coefficient
UselessFile == FileOf(BadLines)
GeoidFiles == {NoFile, GoodFile, DamagedFile, UselessFile}

\* a line the loader passes over though it is not blank
Malformed(parts) == parts # << >> /\ ~LineParses(parts)
HasMalformedLine(file) ==
  \E k \in 1..Len(file.lines) : Malformed(file.lines[k])

GeoidCall(latitude, longitude, max_degree) ==
  [fn |-> "geoidheight", latitude |-> latitude, longitude |-> longitude,
   max_degree |-> max_degree]
GeoidPoints == { <<10 * Deg, 20 * Deg>>, <<-33 * Deg, 151 * Deg>> }
GeoidDegrees == {2, 4, 360}
\* calls the validation refuses
RefusedGeoidCalls ==
  { GeoidCall(90 * Deg + 1, 20 * Deg, 360),
    GeoidCall(10 * Deg, -180 * Deg - 1, 360) }
GeoidCalls ==
  { GeoidCall(p[1], p[2], d) : p \in GeoidPoints, d \in GeoidDegrees }
    \cup RefusedGeoidCalls
\* loads: how often FortranGeoidHeight(...) has been called, and with it
\* load_egm96_coefficients
GeoidState(file, calculator, seen, loads) ==
  [file |-> file, calculator |-> calculator, seen |-> seen, loads |-> loads]
Seen(c, r) == [call |-> c, ret |-> r]

GeoidInit ==
  /\ pc = "call"
  /\ call \in GeoidCalls
  /\ loc = NoLocals
  /\ passes = 0
  /\ ret = NoResult
  /\ prev = NoResult
  /\ batch = NoBatch
  /\ geoid \in { GeoidState(file, None, EmptyBag, 0) : file \in GeoidFiles }

\* one call of geoidheight(latitude, longitude, max_degree): the global
\* calculator is replaced only when its constructor returns
GeoidAfterCall(built, result) ==
  /\ ret' = result
  /\ geoid' = GeoidState(
       geoid.file,
       IF built.kind = "ok" THEN built.calculator ELSE geoid.calculator,
       geoid.seen (+) SetToBag({Seen(call, result)}),
       IF Constructs(geoid, call.max_degree) THEN geoid.loads + 1
       ELSE geoid.loads)
GeoidAfterInit(built) ==
  \E result \in { ModuleGeoidHeight(built, call.latitude, call.longitude) } :
    GeoidAfterCall(built, result)
GeoidEnter ==
  /\ pc = "call"
  /\ call.fn = "geoidheight"
  /\ \E built \in { GlobalCalculator(geoid, call.max_degree) } :
       GeoidAfterInit(built)
  /\ pc' = "done"
  /\ UNCHANGED <<call, loc, passes, prev, batch>>

\* the caller calls again
GeoidAgain ==
  /\ pc = "done"
  /\ call.fn = "geoidheight"
  /\ BagCardinality(geoid.seen) < MaxCalls
  /\ call' \in GeoidCalls
  /\ pc' = "call"
  /\ prev' = ret
  /\ UNCHANGED <<loc, passes, ret, batch, geoid>>

GeoidNext == GeoidEnter \/ GeoidAgain
SpecGeoid == GeoidInit /\ [][GeoidNext]_vars

\* ------------------------------------------------------------------------
\* SpecEntry: one call of any of the four entry points
\* ------------------------------------------------------------------------
EntryInit == DistanceInit \/ DirectInit \/ ProfileInit \/ GeoidInit
EntryNext == DistanceNext \/ DirectNext \/ ProfileNext \/ GeoidNext
SpecEntry == EntryInit /\ [][EntryNext]_vars

\* the domains of the arguments, as the documentation of the entry points
\* gives them
LatitudeOut(lat) == lat < -90 * Deg \/ lat > 90 * Deg
LongitudeOut(lon) == lon < -180 * Deg \/ lon > 180 * Deg
DistanceOutOfDomain(c) ==
  \/ LatitudeOut(c.lat1) \/ LatitudeOut(c.lat2)
  \/ LongitudeOut(c.lon1) \/ LongitudeOut(c.lon2)
  \/ c.ellipsoid \notin EllipsoidNames
  \/ c.method \notin {"great_circle", "rhumb"}
DirectOutOfDomain(c) ==
  \/ LatitudeOut(c.latitude) \/ LongitudeOut(c.longitude)
  \/ c.bearing < 0 \/ c.bearing > 360 * Deg
  \/ c.distance < 0
  \/ c.method \notin {"great_circle", "rhumb_line"}
ElevationOut(elevation) == elevation < -1100000 \/ elevation > 900000
ProfileOutOfDomain(c) ==
  \/ LatitudeOut(c.lat1) \/ LatitudeOut(c.lat2)
  \/ LongitudeOut(c.lon1) \/ LongitudeOut(c.lon2)
  \/ ElevationOut(ElevationCompared(Elev1(c)))
  \/ ElevationOut(ElevationCompared(Elev2(c)))
GeoidOutOfDomain(c) == LatitudeOut(c.latitude) \/ LongitudeOut(c.longitude)

C12_MalformedTableRefused ==
  (/\ pc = "done"
   /\ call.fn = "geoidheight"
   /\ \/ ~geoid.file.exists
      \/ HasMalformedLine(geoid.file)
      \/ DOMAIN LoadLines(geoid.file.lines, 1, [key \in {} |-> 0]) = {})
  => (ret.kind # "ok" /\ ~geoid.calculator.built)
\* a model has been built from the file with a header, a line of three
\* fields and two lines with an unreadable field, the coefficients (3, 3),
\* (4, 1) and (4, 2) of those lines are not in it, and it has returned an
\* undulation
C12_BuiltFromDamagedFile ==
  /\ pc = "done"
  /\ call.fn = "geoidheight"
  /\ geoid.file = DamagedFile
  /\ HasMalformedLine(geoid.file)
  /\ geoid.calculator.built
  /\ {<<3, 3>>, <<4, 1>>, <<4, 2>>} \cap DOMAIN geoid.calculator.hc = {}
  /\ ret.kind = "ok"
  /\ ret.value # 0

\* the start point the direct solver gives for a row with a displaced
\* threshold: from the high end along the runway bearing of the output
DirectStartPoint(row, out) ==
  generate_wgs84_coordinate(row.hi_wgs_lat, row.hi_wgs_long, out.hi_elev_ft,
                            out.rw_brg_deg, f2m(row.hi_disp_thld),
                            "great_circle")

\* C13: for every record processed, without a displaced threshold (NaN) the
\* displaced distance of the output is 0 and the start point is the high
\* end; with one, the displaced length is carried to the output and the
\* start point is the point the direct solver generate_wgs84_coordinate
\* gives from the high end along the runway bearing at the threshold
\* distance in metres
C13_StartPointByDirectSolver ==
  call.fn = "makerunway_kml" =>
    \A k \in 1..Len(batch.kml_output_RWY) :
      IF IsNaN(call.df2proc[k].hi_disp_thld)
      THEN /\ batch.kml_output_RWY[k].hi_disp_thld_ft = 0
           /\ batch.kml_output_RWY[k].stpt_lat = call.df2proc[k].hi_wgs_lat
           /\ batch.kml_output_RWY[k].stpt_long = call.df2proc[k].hi_wgs_long
      ELSE /\ batch.kml_output_RWY[k].hi_disp_thld_ft
                = call.df2proc[k].hi_disp_thld
           /\ \E d \in { DirectStartPoint(call.df2proc[k],
                                          batch.kml_output_RWY[k]) } :
                /\ d.kind = "ok"
                /\ batch.kml_output_RWY[k].stpt_lat = d.lat
                /\ batch.kml_output_RWY[k].stpt_long = d.lon
\* a record with a displaced threshold of 500 ft has been processed: its
\* start point is the point of calculate_destination_point on the sphere of
\* radius 6378137 m, and not the point of the direct solver
C13_StartPointOnSphere ==
  /\ call.fn = "makerunway_kml"
  /\ \E k \in 1..Len(batch.kml_output_RWY) :
       /\ call.df2proc[k].hi_disp_thld = 50000
       /\ batch.kml_output_RWY[k].hi_disp_thld_ft = 50000
       /\ <<batch.kml_output_RWY[k].stpt_lat,
            batch.kml_output_RWY[k].stpt_long>>
            = calculate_destination_point(
                call.df2proc[k].hi_wgs_lat, call.df2proc[k].hi_wgs_long,
                batch.kml_output_RWY[k].rw_brg_rad,
                f2m(call.df2proc[k].hi_disp_thld))
       /\ \E d \in { DirectStartPoint(call.df2proc[k],
                                      batch.kml_output_RWY[k]) } :
            /\ d.kind = "ok"
            /\ <<batch.kml_output_RWY[k].stpt_lat,
                 batch.kml_output_RWY[k].stpt_long>> # <<d.lat, d.lon>>

\* C14: for every record processed, a reduction of 0, number or text of
\* the runway-modification table, leaves the low end of the output exactly
\* the low end of the record; any other reduction puts it where the direct
\* solver arrives from the low end along the reciprocal bearing after that
\* many feet, in metres
C14_ZeroReduxKeepsLowEnd ==
  call.fn = "makerunway_kml" =>
    \A k \in 1..Len(batch.kml_output_RWY) :
      IF call.df2proc[k].hi_redux = 0
      THEN /\ batch.kml_output_RWY[k].lo_wgs_lat = call.df2proc[k].lo_wgs_lat
           /\ batch.kml_output_RWY[k].lo_wgs_long
                = call.df2proc[k].lo_wgs_long
      ELSE \E d \in { generate_wgs84_coordinate(
                        call.df2proc[k].lo_wgs_lat,
                        call.df2proc[k].lo_wgs_long,
                        batch.kml_output_RWY[k].lo_elev_ft,
                        batch.kml_output_RWY[k].rev_rw_brg_deg,
                        f2m(call.df2proc[k].hi_redux), "great_circle") } :
             /\ batch.kml_output_RWY[k].lo_wgs_lat = d.lat
             /\ batch.kml_output_RWY[k].lo_wgs_long = d.lon
\* a record whose reduction is the "0" of the table and whose low end is at
\* longitude 180 has been processed: the relocation was done over 0 m, and
\* the low end of the output is at longitude -180
C14_ZeroTextRelocates ==
  /\ call.fn = "makerunway_kml"
  /\ \E k \in 1..Len(batch.kml_output_RWY) :
       /\ call.df2proc[k].hi_redux_text
       /\ call.df2proc[k].hi_redux = 0
       /\ call.df2proc[k].lo_wgs_long = 180 * Deg
       /\ batch.kml_output_RWY[k].lo_wgs_long = -180 * Deg

\* C15: for every record processed, the traffic-pattern altitude of the
\* output is the smallest multiple of 100 ft that is not below the higher
\* of the two endpoint elevations plus the configured altitude, also when
\* the two elevations are equal
C15_PatternAltitudeRounded ==
  call.fn = "makerunway_kml" =>
    \A k \in 1..Len(batch.kml_output_RWY) :
      \E above \in { Max2(call.df2proc[k].hi_elev, call.df2proc[k].lo_elev)
                       + call.p.TP_Alt } :
        /\ batch.kml_output_RWY[k].TP_Alt % (100 * 100) = 0
        /\ batch.kml_output_RWY[k].TP_Alt >= above
        /\ batch.kml_output_RWY[k].TP_Alt < above + 100 * 100
\* a record whose two ends are both at 100 ft has been processed with a
\* configured altitude of 1500 ft: its traffic-pattern altitude is 1500 ft,
\* below the 1600 ft of elevation plus altitude
C15_EqualElevationsKeepBase ==
  /\ call.fn = "makerunway_kml"
  /\ call.p.TP_Alt = 150000
  /\ \E k \in 1..Len(batch.kml_output_RWY) :
       /\ call.df2proc[k].hi_elev = 10000
       /\ call.df2proc[k].lo_elev = 10000
       /\ batch.kml_output_RWY[k].TP_Alt = 150000

C17_SameCallSameValue ==
  call.fn = "geoidheight" =>
    /\ \A a, b \in BagToSet(geoid.seen) : a.call = b.call => a.ret = b.ret
    /\ geoid.calculator.built =>
         geoid.calculator.hc
           = apply_reference_zonals(
               load_egm96_coefficients(geoid.file).coefficients)
\* a call has returned an undulation for the second time, on a model used
\* again, after a call for another point with another max_degree that
\* returned another undulation
C17_RepeatedAfterOther ==
  /\ pc = "done"
  /\ call.fn = "geoidheight"
  /\ ret.kind = "ok"
  /\ BagIn(Seen(call, ret), geoid.seen)
  /\ CopiesIn(Seen(call, ret), geoid.seen) = 2
  /\ prev.kind = "ok" /\ prev.value # ret.value
  /\ geoid.calculator.max_degree = call.max_degree
  /\ \E e \in BagToSet(geoid.seen) :
       /\ e.call.max_degree # call.max_degree
       /\ e.call.latitude # call.latitude
       /\ e.ret = prev

\* the classes of the errors the solvers and the geoid model raise
SolverErrors ==
  {"ValueError", "FileNotFoundError", "ZeroDivisionError", "IndexError"}

\* C18: when a solver or the geoid model fails for a record, what leaves
\* makerunway_kml, and reaches save_output_files, is not the error of the
\* solver but an error of the procedure computation that carries the
\* identifier of the runway that failed
C18_FailureNamesRunway ==
  (/\ call.fn = "makerunway_kml"
   /\ pc \in {"raised", "done"}
   /\ ret.kind \notin {"none", "ok"})
  => /\ ret.kind \notin SolverErrors
     /\ "hi_ident" \in DOMAIN ret
     /\ ret.hi_ident = call.df2proc[batch.at].hi_ident
\* the geoid model has failed for the first record of a batch: the
\* FileNotFoundError of the loader has left makerunway_kml as it was raised
\* and its text is all the message box shows
C18_RawErrorInDialog ==
  /\ call.fn = "makerunway_kml"
  /\ pc = "done"
  /\ batch.at = 1
  /\ ret = RowRaise("FileNotFoundError", "EGM96 coefficient file not found")
  /\ batch.dialog
       = "Failed to create runway files: EGM96 coefficient file not found"

\* ------------------------------------------------------------------------
\* C19
\* ------------------------------------------------------------------------
\* the elevations of a profile, in the order of its entries, in 1e-5 m
ProfileElevationsOf(df) == [k \in 1..Len(df) |-> df[k].elevation_m]
NonDecreasing(e) == \A k \in 1..(Len(e) - 1) : e[k] <= e[k + 1]
NonIncreasing(e) == \A k \in 1..(Len(e) - 1) : e[k] >= e[k + 1]
\* an entry's elevation x (1e-5 m) against the elevation elev of a call
NotBelow(x, elev) == x > elev[1] * Fine \/ (x = elev[1] * Fine /\ elev[2] = 0)
NotAbove(x, elev) == x <= elev[1] * Fine
\* every value lies in [low, high], two elevations of the call
AllWithin(e, low, high) ==
  \A k \in 1..Len(e) : NotBelow(e[k], low) /\ NotAbove(e[k], high)
\* low <= high for two elevations of a call
ElevationLeq(low, high) ==
  low[1] < high[1] \/ (low[1] = high[1] /\ low[2] <= high[2])
\* the elevation as the profile shows it: round(elev, 5), in 1e-5 m
Shown(elev) == RoundElevation(elev[1] * Fine, elev)

\* C19 (as stated): in the profile generate_equidistant_points returns the
\* elevations are monotone from the start elevation to the end elevation and
\* never overshoot: when elev2 >= elev1 every entry's elevation lies in
\* [elev1, elev2] and the elevations are non-decreasing along the profile,
\* and symmetrically when elev2 <= elev1
C19_ElevationsWithinEnds ==
  ProfileDone
    => /\ ElevationLeq(Elev1(call), Elev2(call))
            => /\ AllWithin(ProfileElevationsOf(ret.df), Elev1(call),
                            Elev2(call))
               /\ NonDecreasing(ProfileElevationsOf(ret.df))
       /\ ElevationLeq(Elev2(call), Elev1(call))
            => /\ AllWithin(ProfileElevationsOf(ret.df), Elev2(call),
                            Elev1(call))
               /\ NonIncreasing(ProfileElevationsOf(ret.df))

\* C19 (amended): the elevations of the profile are monotone from
\* round(elev1, 5) in the first entry to round(elev2, 5) in the last one:
\* non-decreasing when elev2 >= elev1 and non-increasing when
\* elev2 <= elev1, so that every entry lies between the two rounded end
\* elevations
C19_ElevationsMonotone ==
  ProfileDone
    => /\ ret.df[1].elevation_m = Shown(Elev1(call))
       /\ ret.df[Len(ret.df)].elevation_m = Shown(Elev2(call))
       /\ ElevationLeq(Elev1(call), Elev2(call))
            => NonDecreasing(ProfileElevationsOf(ret.df))
       /\ ElevationLeq(Elev2(call), Elev1(call))
            => NonIncreasing(ProfileElevationsOf(ret.df))

\* a returned profile that climbs from 600.000004 m to 610.000006 m: its
\* elevations rise from entry to entry, the first entry lies below elev1
\* and the last one above elev2
C19_ClimbingProfile ==
  /\ ProfileDone
  /\ call.num_points >= 2
  /\ ret.elevation_slope > 0
  /\ \A k \in 1..(Len(ret.df) - 1) :
       ret.df[k].elevation_m < ret.df[k + 1].elevation_m
  /\ ~NotBelow(ret.df[1].elevation_m, Elev1(call))
  /\ ~NotAbove(ret.df[Len(ret.df)].elevation_m, Elev2(call))

\* ------------------------------------------------------------------------
\* The round trip: distance(P1, P2), then generate_wgs84_coordinate from P1
\* on the azimuth and over the distance it returned
\* ------------------------------------------------------------------------
\* pairs of valid points, neither coincident nor antipodal, from a runway's
\* length to a third of the way round the earth
RoundTripPairs ==
  { <<10 * Deg, 20 * Deg, 30 * Deg, 50 * Deg>>,
    <<10 * Deg, 20 * Deg, 11 * Deg, 21 * Deg>>,
    <<10 * Deg, 20 * Deg, 10020000, 20010000>>,
    <<36073628, -115161433, 36073658, -115125825>>,
    <<40712800, -74006000, 51507400, -127800>>,
    <<-45 * Deg, -10 * Deg, 60 * Deg, 100 * Deg>>,
    <<0, 0, 10 * Deg, -500>>,
    <<60 * Deg, 179 * Deg, 60 * Deg, -179 * Deg>>,
    <<-33950000, 151170000, -37 * Deg, 145 * Deg>> }
RoundTripCalls ==
  { DistanceCall(m, p, "WGS84", "great_circle", FALSE) :
      m \in DistanceModules, p \in RoundTripPairs }

RoundTripInit ==
  /\ pc = "call"
  /\ call \in RoundTripCalls
  /\ loc = NoLocals
  /\ passes = 0
  /\ ret = NoResult
  /\ prev = NoResult
  /\ batch = NoBatch
  /\ geoid = NoGeoid

\* what the caller keeps of the call of distance: its result, the module
\* and the point P2
TripLeg(c, r) ==
  [kind |-> r.kind, msg |-> r.msg, az |-> r.az, dist |-> r.dist,
   fn |-> c.fn, lat2 |-> c.lat2, lon2 |-> c.lon2]

\* a caller that, having (az, d) = distance(P1, P2), asks
\* generate_wgs84_coordinate for the point at d from P1 on the bearing az
RoundTripCall ==
  /\ pc = "done"
  /\ call.fn \in DistanceModules
  /\ call.method = "great_circle"
  /\ ret.kind = "ok"
  /\ prev = NoResult
  /\ prev' = TripLeg(call, ret)
  /\ call' = DirectCall(<<call.lat1, call.lon1>>, 0, ret.az, ret.dist,
                        "great_circle")
  /\ pc' = "call"
  /\ ret' = NoResult
  /\ loc' = NoDirectLocals
  /\ passes' = 0
  /\ UNCHANGED <<batch, geoid>>

RoundTripNext ==
  \/ DistanceEnter \/ GCIterate \/ GCExit
  \/ RoundTripCall
  \/ DirectEnter \/ VDIterate \/ VDExit
SpecRoundTrip == RoundTripInit /\ [][RoundTripNext]_vars

\* the round trip through distance() of the named module has returned
RoundTripDone(module) ==
  /\ pc = "done"
  /\ call.fn = "generate_wgs84_coordinate"
  /\ prev.fn = module
  /\ ret.kind = "ok"
\* two longitudes apart, the short way round, in 1e-6 degree
LongitudeApart(x, y) == Min2(Abs(x - y), 360 * Deg - Abs(x - y))

\* C20: for valid, non-antipodal, non-coincident points P1 and P2, taking
\* (az, d) = distance(P1, P2) of simple_distance.py by the great-circle
\* method and then generate_wgs84_coordinate(P1, az, d, great_circle) gives
\* a point within 1e-6 degree of P2 in latitude and in longitude
C20_RoundTripWithinMicrodegree ==
  RoundTripDone("simple_distance")
    => /\ Abs(ret.lat - prev.lat2) <= 1
       /\ LongitudeApart(ret.lon, prev.lon2) <= 1

\* the round trip from (-45, -10) to (60, 100): distance() returns the
\* azimuth 43.80 for 43.7957, and the point generate_wgs84_coordinate gives
\* lies more than 0.002 degree south of P2
C20_RoundTripMisses ==
  /\ RoundTripDone("simple_distance")
  /\ call.latitude = -45 * Deg /\ call.longitude = -10 * Deg
  /\ prev.lat2 = 60 * Deg /\ prev.lon2 = 100 * Deg
  /\ prev.az = 43800000
  /\ call.bearing = prev.az /\ call.distance = prev.dist
  /\ prev.az # great_circle_distance(call.latitude, call.longitude,
                                     prev.lat2, prev.lon2,
                                     ELLIPSOIDS["WGS84"].a,
                                     ELLIPSOIDS["WGS84"].f, FALSE).az
  /\ prev.lat2 - ret.lat > 2000

\* the resolution of the round trip in this model: with the azimuth that
\* distance() of TT80Calculator.py rounds to 5 decimals the point lies
\* within 0.00025 degree of P2 for every pair
RoundTripResolution ==
  RoundTripDone("TT80Calculator")
    => /\ Abs(ret.lat - prev.lat2) <= 250
       /\ LongitudeApart(ret.lon, prev.lon2) <= 250

RelocatedLowEnd(row, out) ==
  generate_wgs84_coordinate(row.lo_wgs_lat, row.lo_wgs_long, row.lo_elev,
                            out.rev_rw_brg_deg, f2m(row.hi_redux),
                            "great_circle")
\* lines 160, 165, 175 and 199 (242) again, from a low end at (lat, lon)
LengthFrom(row, lat, lon) ==
  m2f(distance("TT80Calculator", row.hi_wgs_lat, row.hi_wgs_long, lat, lon,
               "WGS84", "great_circle", FALSE).dist)
StopPointFrom(row, out, p, lat, lon) ==
  generate_wgs84_coordinate(lat, lon, row.lo_elev, out.rev_rw_brg_deg,
                            f2m(p.STP_dist_ft), "great_circle")
DeparturePointFrom(row, out, p, lat, lon) ==
  generate_wgs84_coordinate(lat, lon, row.lo_elev, out.rw_brg_deg,
                            f2m(nm2f(p.Dep_dist_nm)), "great_circle")
ProfileEnd(out) ==
  out.intermediate_points.rows[Len(out.intermediate_points.rows)]
DerivedFrom(row, out, p, lat, lon) ==
  /\ out.rw_dist_ft = LengthFrom(row, lat, lon)
  /\ out.STP_points = StopPointFrom(row, out, p, lat, lon)
  /\ out.DEP_points = DeparturePointFrom(row, out, p, lat, lon)
  /\ ProfileEnd(out).latitude = lat
  /\ ProfileEnd(out).longitude = lon
NoneFrom(row, out, p, lat, lon) ==
  /\ out.rw_dist_ft # LengthFrom(row, lat, lon)
  /\ out.STP_points # StopPointFrom(row, out, p, lat, lon)
  /\ out.DEP_points # DeparturePointFrom(row, out, p, lat, lon)
  /\ <<ProfileEnd(out).latitude, ProfileEnd(out).longitude>> # <<lat, lon>>
\* the relocation is over a distance: a hi_redux of "0" leaves the low end
\* where it is
Relocates(row) == f2m(row.hi_redux) # 0
RelocationFirst(row, out, p, moved) ==
  /\ moved.kind = "ok"
  /\ out.lo_wgs_lat = moved.lat
  /\ out.lo_wgs_long = moved.lon
  /\ DerivedFrom(row, out, p, moved.lat, moved.lon)
  /\ Relocates(row)
       => NoneFrom(row, out, p, row.lo_wgs_lat, row.lo_wgs_long)

\* C24: for a record whose hi_redux is not zero the low end is relocated
\* before everything that follows: the runway length, the stop point, the
\* departure point and the end point of the elevation profile of its result
\* are those computed from the relocated low end, and where the relocation
\* is over a distance none of them is the one computed from the low end of
\* the row
C24_RelocatedBeforeDownstream ==
  call.fn = "makerunway_kml"
    => \A k \in DOMAIN batch.kml_output_RWY :
         ReduxNotZero(call.df2proc[k])
           => RelocationFirst(call.df2proc[k], batch.kml_output_RWY[k],
                              call.p,
                              RelocatedLowEnd(call.df2proc[k],
                                              batch.kml_output_RWY[k]))

\* the call is over for a batch with a row of 300 ft hi_redux: its result
\* has the low end some metres from the one of the row, and a runway
\* shorter than the one between the ends of the row
C24_ShortenedRunwayDone ==
  /\ call.fn = "makerunway_kml"
  /\ pc = "done"
  /\ \E k \in DOMAIN batch.kml_output_RWY :
       /\ call.df2proc[k].hi_redux = 30000
       /\ Relocates(call.df2proc[k])
       /\ batch.kml_output_RWY[k].lo_wgs_long # call.df2proc[k].lo_wgs_long
       /\ batch.kml_output_RWY[k].rw_dist_ft
            < LengthFrom(call.df2proc[k], call.df2proc[k].lo_wgs_lat,
                         call.df2proc[k].lo_wgs_long)
       /\ batch.kml_output_RWY[k].STP_points.kind = "ok"
\* ------------------------------------------------------------------------
\* C25
\* ------------------------------------------------------------------------
\* math.ceil(m2f(geoidheight(latitude, longitude))) for an entry of the
\* profile, and m2f(elevation_m) of the entry
GeoidFeetAt(r, table) ==
  CeilTo(m2f(geoidheight(r.latitude, r.longitude, table).value), 100)
ElevationFeet(r) == m2f((r.elevation_m + Fine \div 2) \div Fine)
ProfileOf(out) == out.intermediate_points.rows

\* C25: in the result of every record each of the num_points + 2 = 17
\* entries of the profile has as its geoid height the undulation at the
\* entry, converted to feet and rounded up to a whole foot, and as its
\* altitude over the geoid its elevation in feet less that geoid height;
\* GSV_alt is the geoid height of the entry at index 6, with and without a
\* displaced threshold
C25_GeoidHeightOfEveryEntry ==
  call.fn = "makerunway_kml"
    => \A k \in DOMAIN batch.kml_output_RWY :
         /\ Len(ProfileOf(batch.kml_output_RWY[k])) = 15 + 2
         /\ \A j \in DOMAIN ProfileOf(batch.kml_output_RWY[k]) :
              /\ ProfileOf(batch.kml_output_RWY[k])[j].emg96ft
                   = GeoidFeetAt(ProfileOf(batch.kml_output_RWY[k])[j],
                                 call.table)
              /\ ProfileOf(batch.kml_output_RWY[k])[j].ptEGM96
                   = ElevationFeet(ProfileOf(batch.kml_output_RWY[k])[j])
                       - ProfileOf(batch.kml_output_RWY[k])[j].emg96ft
         /\ batch.kml_output_RWY[k].GSV_alt
              = ProfileOf(batch.kml_output_RWY[k])[6 + 1].emg96ft

\* the call is over on a geoid that rises along the runway, for a record
\* with and a record without a displaced threshold: in both results the
\* geoid height at index 6 is neither that of the first nor that of the
\* last entry
C25_BothBranchesOnSlopingGeoid ==
  /\ call.fn = "makerunway_kml"
  /\ pc = "done"
  /\ call.table.tilt # 0
  /\ \E j, k \in DOMAIN batch.kml_output_RWY :
       /\ ~IsNaN(call.df2proc[j].hi_disp_thld)
       /\ IsNaN(call.df2proc[k].hi_disp_thld)
       /\ \A n \in {j, k} :
            /\ batch.kml_output_RWY[n].GSV_alt
                 # ProfileOf(batch.kml_output_RWY[n])[1].emg96ft
            /\ batch.kml_output_RWY[n].GSV_alt
                 # ProfileOf(batch.kml_output_RWY[n])[17].emg96ft
\* ------------------------------------------------------------------------
\* C26
\* ------------------------------------------------------------------------
\* distance() of the named copy on the arguments of the running call
CopyResult(module) ==
  distance(module, call.lat1, call.lon1, call.lat2, call.lon2,
           call.ellipsoid, call.method, call.back_az)
\* an azimuth, in 1e-6 degree, with no more than 2 decimal places
TwoDecimals(az) == az % 10000 = 0

\* C26: the azimuth and the distance distance() returns are rounded to 2
\* decimal places, and simple_distance.distance and TT80Calculator.distance
\* return the same (azimuth, distance) for the same arguments
C26_CopiesReturnTheSame ==
  (pc = "done" /\ call.fn \in DistanceModules /\ ret.kind = "ok")
    => /\ TwoDecimals(ret.az)
       /\ \A module \in DistanceModules :
            /\ CopyResult(module).az = ret.az
            /\ CopyResult(module).dist = ret.dist

\* TT80Calculator.distance has returned an azimuth with more than 2
\* decimal places, which is not the azimuth simple_distance.distance
\* returns for the same points, while the distances are the same
C26_CopiesDiffer ==
  /\ pc = "done"
  /\ call.fn = "TT80Calculator"
  /\ call.method = "great_circle"
  /\ ret.kind = "ok"
  /\ ~TwoDecimals(ret.az)
  /\ CopyResult("simple_distance").kind = "ok"
  /\ CopyResult("simple_distance").az # ret.az
  /\ TwoDecimals(CopyResult("simple_distance").az)
  /\ CopyResult("simple_distance").dist = ret.dist
  /\ CopyResult("TT80Calculator") = ret
\* ------------------------------------------------------------------------
\* C27
\* ------------------------------------------------------------------------
\* all calls made so far asked for the same max_degree
OneDegree(seen) ==
  \A x, y \in BagToSet(seen) : x.call.max_degree = y.call.max_degree

\* C27: the geoid model is built once and used again: when all calls of
\* geoidheight so far had the same max_degree and a model has been built,
\* the coefficient table has been loaded once, also when that max_degree is
\* above the highest degree of the table
C27_ModelBuiltOnce ==
  (call.fn = "geoidheight" /\ OneDegree(geoid.seen)
     /\ geoid.calculator.built)
    => geoid.loads <= 1

\* three calls with max_degree 360 on a table of degree 4 have returned a
\* geoid height each, and each of them has built a model
C27_BuiltOnEveryCall ==
  /\ call.fn = "geoidheight"
  /\ pc = "done"
  /\ OneDegree(geoid.seen)
  /\ call.max_degree = 360
  /\ \A x \in BagToSet(geoid.seen) : x.ret.kind = "ok"
  /\ geoid.calculator.built
  /\ geoid.calculator.max_degree = 4
  /\ BagCardinality(geoid.seen) = 3
  /\ geoid.loads = 3
\* ------------------------------------------------------------------------
\* C28
\* ------------------------------------------------------------------------
\* the column names of the profile table of a result: those of its rows,
\* with the altitude over the geoid under the name the branch gave it
ColumnNames(out) ==
  ((DOMAIN out.intermediate_points.rows[1]) \ {"ptEGM96"})
    \cup {out.intermediate_points.altitude_column}

\* C28: the results of makerunway_kml have the same field names with and
\* without a displaced threshold, and their profile tables the same column
\* names: the altitude over the geoid is under one name in all of them
C28_SameFieldNames ==
  call.fn = "makerunway_kml"
    => \A j, k \in DOMAIN batch.kml_output_RWY :
         /\ DOMAIN batch.kml_output_RWY[j] = DOMAIN batch.kml_output_RWY[k]
         /\ ColumnNames(batch.kml_output_RWY[j])
              = ColumnNames(batch.kml_output_RWY[k])

\* the call is over for a batch with a record with and a record without a
\* displaced threshold: the fields of the two results are the same, the
\* altitude column of the one is 'ptEGM96alt', of the other 'ptEGM96akt'
C28_TwoAltitudeColumns ==
  /\ call.fn = "makerunway_kml"
  /\ pc = "done"
  /\ \E j, k \in DOMAIN batch.kml_output_RWY :
       /\ ~IsNaN(call.df2proc[j].hi_disp_thld)
       /\ IsNaN(call.df2proc[k].hi_disp_thld)
       /\ DOMAIN batch.kml_output_RWY[j] = DOMAIN batch.kml_output_RWY[k]
       /\ "ptEGM96alt" \in ColumnNames(batch.kml_output_RWY[j])
       /\ "ptEGM96alt" \notin ColumnNames(batch.kml_output_RWY[k])
       /\ "ptEGM96akt" \in ColumnNames(batch.kml_output_RWY[k])
       /\ "ptEGM96akt" \notin ColumnNames(batch.kml_output_RWY[j])
\* ------------------------------------------------------------------------
\* C29
\* ------------------------------------------------------------------------
\* the method passes the validation of distance(), of
\* generate_wgs84_coordinate(), the other arguments being valid
InverseAccepts(method) ==
  DistanceValidate(0, 0, 0, 0, "WGS84", method).kind = "accepted"
DirectAccepts(method) ==
  DirectValidate(0, 0, 0, 0, method).kind = "accepted"

\* C29: distance() and generate_wgs84_coordinate() accept the same method
\* names: the method of a call either of them has accepted is accepted by
\* the other
C29_SameMethodNames ==
  pc = "done" =>
    /\ (call.fn \in DistanceModules /\ InverseAccepts(call.method))
         => DirectAccepts(call.method)
    /\ (call.fn = "generate_wgs84_coordinate" /\ DirectAccepts(call.method))
         => InverseAccepts(call.method)

\* generate_wgs84_coordinate has returned a point on the rhumb line for
\* method 'rhumb_line', a name for which distance() raises
C29_RhumbLineNameRefusedByInverse ==
  /\ pc = "done"
  /\ call.fn = "generate_wgs84_coordinate"
  /\ call.method = "rhumb_line"
  /\ ret.kind = "ok"
  /\ DistanceValidate(0, 0, 0, 0, "WGS84", call.method)
       = Raise("ValueError", "Method must be 'great_circle' or 'rhumb'")
  /\ DirectValidate(0, 0, 0, 0, "rhumb")
       = RaiseDirect("ValueError",
                     "Method must be 'great_circle' or 'rhumb_line', got rhumb")
\* ------------------------------------------------------------------------
\* C30
\* ------------------------------------------------------------------------
\* stpt_a of lines 197 and 240: the elevation, in feet, makerunway_kml has
\* for the start of the profile of a row
StartElevationFeet(row) ==
  IF IsNaN(row.hi_disp_thld) THEN row.hi_elev ELSE row.hi_disp_thld_elev
\* two elevations in 0.01 ft that are within a foot of each other
WithinAFoot(x, y) == Abs(x - y) <= 100

\* C30: in the profile of every result the elevation of the first and of
\* the last entry, converted to feet by m2f, is the elevation in feet the
\* row has for the start of the profile and for the low end, up to
\* rounding: the factor applied to the feet before the profile is built is
\* the inverse of m2f
C30_ProfileFeetRoundTrip ==
  call.fn = "makerunway_kml"
    => \A k \in DOMAIN batch.kml_output_RWY :
         /\ WithinAFoot(ElevationFeet(ProfileOf(batch.kml_output_RWY[k])[1]),
                        StartElevationFeet(call.df2proc[k]))
         /\ WithinAFoot(ElevationFeet(ProfileEnd(batch.kml_output_RWY[k])),
                        call.df2proc[k].lo_elev)

\* the call is over for runway 08, whose ends are at 2000 ft and 2050 ft:
\* the first entry of its profile is at more than 2230 ft, the last at
\* more than 2290 ft, while m2f(f2m(2000 ft)) is 2000 ft
C30_ProfileElevationsInflated ==
  /\ call.fn = "makerunway_kml"
  /\ pc = "done"
  /\ \E k \in DOMAIN batch.kml_output_RWY :
       /\ call.df2proc[k] = Runway08
       /\ StartElevationFeet(call.df2proc[k]) = 200000
       /\ ElevationFeet(ProfileOf(batch.kml_output_RWY[k])[1]) > 223000
       /\ ElevationFeet(ProfileEnd(batch.kml_output_RWY[k])) > 229000
       /\ WithinAFoot(m2f(f2m(200000)), 200000)
\* ------------------------------------------------------------------------
\* SpecTermination: one call of distance() or of generate_wgs84_coordinate()
\* by the great-circle method, followed pass by pass through its loop
\* ------------------------------------------------------------------------
\* pairs of points nearly opposite each other, on which the inverse solver
\* uses its budget
OpposedPairs ==
  { <<400000, 0, 200000, 179768214>>, <<0, 0, 0, 179900000>>,
    <<593000, 0, 0, 179747068>> }
\* starts, bearings and distances of the direct solver; on the first two
\* the values of sigma come to alternate between neighbours
AlternatingCalls ==
  { DirectCall(<<60 * Deg, 0>>, 0, 45 * Deg, 482006734, "great_circle"),
    DirectCall(<<36073658, 0>>, 0, 330 * Deg, 640012580, "great_circle") }
TerminationCalls ==
  { DistanceCall(m, p, "WGS84", "great_circle", FALSE) :
      m \in DistanceModules, p \in GreatCirclePairs \cup OpposedPairs }
    \cup { DirectCall(p, 0, b, d, "great_circle") :
             p \in DirectPoints, b \in {45 * Deg, 270 * Deg},
             d \in {100000, 120000000} }
    \cup AlternatingCalls
TerminationInit ==
  /\ pc = "call"
  /\ call \in TerminationCalls
  /\ loc = IF call.fn \in DistanceModules THEN NoLocals ELSE NoDirectLocals
  /\ passes = 0
  /\ ret = NoResult
  /\ prev = NoResult
  /\ batch = NoBatch
  /\ geoid = NoGeoid
TerminationNext ==
  DistanceEnter \/ GCIterate \/ GCExit \/ DirectEnter \/ VDIterate \/ VDExit
SpecTermination == TerminationInit /\ [][TerminationNext]_vars

\* ------------------------------------------------------------------------
\* C23
\* ------------------------------------------------------------------------
\* the loop of _vincenty_direct is where it was two passes ago: what it
\* computes depends on its locals alone, so it goes on for ever
Recurs(v) == VDContinue(v) /\ VDBody(VDBody(v)) = v

\* C23: both solvers are bounded loops that terminate: the inverse solver
\* makes at most 100 passes, and the loop of the direct solver
\* _vincenty_direct comes to its end on every accepted input, also when
\* the successive values of sigma do not come within the tolerance, so it
\* is never in a state that recurs
C23_SolversBounded ==
  /\ call.fn \in DistanceModules => passes <= 100
  /\ (call.fn = "generate_wgs84_coordinate" /\ pc = "loop") => ~Recurs(loc)

\* the loop of _vincenty_direct has made more passes than the inverse
\* solver may, its test still holds, and two passes on its locals are the
\* ones it has now: sigma alternates between two neighbouring values
C23_DirectLoopAlternates ==
  /\ pc = "loop"
  /\ call.fn = "generate_wgs84_coordinate"
  /\ passes > 100
  /\ Recurs(loc)
  /\ Abs(loc.sigma - loc.sigma_prev) = 1
  /\ DirectValidate(call.latitude, call.longitude, call.bearing,
                    call.distance, call.method).kind = "accepted"

\* ------------------------------------------------------------------------
\* C22
\* ------------------------------------------------------------------------
\* the loop of _great_circle_distance was left with a change of lambda
\* within the tolerance, after at least one pass
Converged(v) == v.lambda_val = v.lambda_prev /\ ~v.returned

\* C22: a run of the great-circle inverse whose change of lambda falls
\* within the tolerance on any pass from the 1st to the 100th returns the
\* azimuth and distance computed from that pass: no error, and not the
\* antipodal approximation
C22_ConvergedRunReturns ==
  (/\ pc = "done"
   /\ call.fn \in DistanceModules
   /\ passes >= 1
   /\ Converged(loc))
  => ret = DistanceRound(call.fn,
             Returns(normalize_azimuth(
                       Degrees(GCAzimuthRad(loc, call.back_az))),
                     GCDistance(loc, ELLIPSOIDS[call.ellipsoid].a,
                                ELLIPSOIDS[call.ellipsoid].f)))
\* a run that converges on its 100th pass and is refused for not converging
C22_ConvergedOnLastPass ==
  /\ pc = "done"
  /\ call.fn = "simple_distance"
  /\ passes = 100
  /\ loc.iter_limit = 0
  /\ Converged(loc)
  /\ ret = Raise("ValueError", "Great circle calculation failed to converge")
====
